---- MODULE Spec2Model ----
(***************************************************************************)
(* The tool-calling agent of doomscroller_gemini: AIAgent.execute_tool and *)
(* AIAgent.run (src/ai_agent_tools.py), the retry_on_error decorator, and  *)
(* the streaming loop stream_agent_response with the direct entry point    *)
(* execute_tool_directly (src/app.py).                                     *)
(*                                                                         *)
(* A model response is a sequence of tokens.  White space is not a token:  *)
(* str.strip() and the \s* of the regular expressions act on nothing the   *)
(* model records.                                                          *)
(***************************************************************************)
EXTENDS Integers, Sequences, FiniteSets, TLC

\* ------------------------------------------------------------------ text

\* Python's None, as the value of dict.get on an absent key.
None == "None"

Tok(k, v) == [k |-> k, v |-> v]

W       == Tok("W", "")          \* prose
FENCE   == Tok("FENCE", "")      \* ```
JSONTAG == Tok("JSONTAG", "")    \* the word json right after a fence
LB      == Tok("LB", "")         \* {
RB      == Tok("RB", "")         \* }
NUM     == Tok("NUM", "")        \* a bare JSON number, 42
LIST    == Tok("LIST", "")       \* a JSON list, [1, 2]
PKEY    == Tok("parameters", "") \* the key "parameters": , its value follows
Act(a)  == Tok("action", a)      \* "action": "<a>"
Tool(t) == Tok("tool", t)        \* "tool": "<t>"
Resp(r) == Tok("response", r)    \* "response": "<r>"
Par(p, v) == Tok(p, v)           \* "<p>": <a truthy or a falsy value>

\* The keys execute_tool reads from the parameters mapping.
ParamNames ==
    {"platform", "query", "limit", "directory", "filename", "data",
     "keywords", "case_sensitive", "filters", "field", "operation",
     "file1", "file2"}

\* Strings that hold a brace character themselves.
BraceStrings == {"see {x}"}

\* The character class [{}] of the third pattern: a token that holds a brace.
HasBrace(tok) ==
    \/ tok \in {LB, RB}
    \/ tok.k = "response" /\ tok.v \in BraceStrings

\* The literal "action" of the third pattern.
HasActionKey(tok) == tok.k = "action"

MinOf(S) == CHOOSE x \in S : \A y \in S : x <= y

NoMatch == [found |-> FALSE, group |-> << >>]

\* re.search(r'```json\s*(.*?)\s*```', text, re.DOTALL): group(1)
SearchJsonFence(text) ==
    LET starts == {i \in 1..Len(text) :
                      /\ text[i] = FENCE
                      /\ i + 1 <= Len(text)
                      /\ text[i + 1] = JSONTAG
                      /\ \E j \in (i + 2)..Len(text) : text[j] = FENCE}
    IN  IF starts = {} THEN NoMatch
        ELSE LET i == MinOf(starts)
                 j == MinOf({n \in (i + 2)..Len(text) : text[n] = FENCE})
             IN  [found |-> TRUE, group |-> SubSeq(text, i + 2, j - 1)]

\* re.search(r'```\s*(.*?)\s*```', text, re.DOTALL): group(1)
SearchAnyFence(text) ==
    LET starts == {i \in 1..Len(text) :
                      /\ text[i] = FENCE
                      /\ \E j \in (i + 1)..Len(text) : text[j] = FENCE}
    IN  IF starts = {} THEN NoMatch
        ELSE LET i == MinOf(starts)
                 j == MinOf({n \in (i + 1)..Len(text) : text[n] = FENCE})
             IN  [found |-> TRUE, group |-> SubSeq(text, i + 1, j - 1)]

\* re.search(r'\{[^{}]*"action"[^{}]*\}', text, re.DOTALL): group(0)
SearchActionObject(text) ==
    LET Ends(i) == {j \in (i + 1)..Len(text) :
                      /\ text[j] = RB
                      /\ \A n \in (i + 1)..(j - 1) : ~HasBrace(text[n])
                      /\ \E n \in (i + 1)..(j - 1) : HasActionKey(text[n])}
        starts == {i \in 1..Len(text) : text[i] = LB /\ Ends(i) # {}}
    IN  IF starts = {} THEN NoMatch
        ELSE LET i == MinOf(starts)
             IN  [found |-> TRUE, group |-> SubSeq(text, i, MinOf(Ends(i)))]

\* '```' in text
HasFence(text) == \E i \in 1..Len(text) : text[i] = FENCE

\* ------------------------------------------------------------ json.loads

NoParams == [ptype |-> "absent", entries |-> << >>]

JSONDecodeError ==
    [type |-> "error", action |-> None, tool |-> None, response |-> None,
     parameters |-> NoParams]

Scalar(ty) ==
    [type |-> ty, action |-> None, tool |-> None, response |-> None,
     parameters |-> NoParams]

IsField(tok) == tok.k \in {"action", "tool", "response"}

\* The first index at or after n of s that holds RB, 0 when there is none.
FirstRB(s, n) ==
    LET at == {j \in n..Len(s) : s[j] = RB}
    IN  IF at = {} THEN 0 ELSE MinOf(at)

\* A nested parameters object starts at s[n] = LB: well formed when it is
\* closed and holds only parameter entries.
ParamObjectOK(s, n) ==
    /\ FirstRB(s, n + 1) # 0
    /\ \A m \in (n + 1)..(FirstRB(s, n + 1) - 1) : s[m].k \in ParamNames

RECURSIVE MembersOK(_, _)
\* The members of an object, from index n of s on, are well formed.
MembersOK(s, n) ==
    IF n > Len(s) THEN TRUE
    ELSE IF IsField(s[n]) THEN MembersOK(s, n + 1)
    ELSE IF s[n] = PKEY /\ n + 1 <= Len(s) THEN
        IF s[n + 1] \in {LIST, NUM} THEN MembersOK(s, n + 2)
        ELSE IF s[n + 1] = LB /\ ParamObjectOK(s, n + 1)
             THEN MembersOK(s, FirstRB(s, n + 2) + 1)
        ELSE FALSE
    ELSE FALSE

\* dict.get(key) of a parsed object on its own fields (the last binding wins).
FieldOf(s, key) ==
    LET at == {n \in 1..Len(s) : s[n].k = key}
    IN  IF at = {} THEN None
        ELSE s[CHOOSE n \in at : \A m \in at : m <= n].v

\* The value bound to "parameters" in the members s.
ParamsOf(s) ==
    LET at == {n \in 1..Len(s) : s[n] = PKEY}
    IN  IF at = {} THEN NoParams
        ELSE LET n == CHOOSE x \in at : \A m \in at : m <= x
             IN  IF s[n + 1] = LIST THEN [ptype |-> "list", entries |-> << >>]
                 ELSE IF s[n + 1] = NUM THEN [ptype |-> "num", entries |-> << >>]
                 ELSE LET keys == {s[m].k : m \in (n + 2)..(FirstRB(s, n + 2) - 1)}
                      IN  [ptype |-> "dict",
                           entries |-> [p \in keys |->
                               s[CHOOSE m \in (n + 2)..(FirstRB(s, n + 2) - 1) :
                                   s[m].k = p].v]]

\* json.loads(text): the parsed value, or JSONDecodeError.
JsonLoads(text) ==
    IF text = <<NUM>> THEN Scalar("num")
    ELSE IF text = <<LIST>> THEN Scalar("list")
    ELSE IF /\ Len(text) >= 2
            /\ text[1] = LB
            /\ text[Len(text)] = RB
            /\ MembersOK(SubSeq(text, 2, Len(text) - 1), 1)
    THEN LET s == SubSeq(text, 2, Len(text) - 1)
         IN  [type |-> "dict",
              action |-> FieldOf(s, "action"),
              tool |-> FieldOf(s, "tool"),
              response |-> FieldOf(s, "response"),
              parameters |-> ParamsOf(s)]
    ELSE JSONDecodeError

\* isinstance(v, dict)
IsDict(v) == v.type = "dict"

\* bool(v) of a parsed value: a number 42 and a list [1, 2] are truthy, a
\* mapping is truthy when it has a key.
Truthy(v) ==
    \/ v.type \in {"num", "list"}
    \/ /\ v.type = "dict"
       /\ \/ v.action # None
          \/ v.tool # None
          \/ v.response # None
          \/ v.parameters.ptype # "absent"

\* ------------------------------------------------- parsing of a response

\* AIAgent.run: the text handed to json.loads after the two fence patterns.
RunExtract(text) ==
    IF SearchJsonFence(text).found THEN SearchJsonFence(text).group
    ELSE IF HasFence(text) /\ SearchAnyFence(text).found
         THEN SearchAnyFence(text).group
    ELSE text

\* action_data = None
PyNone == Scalar("none")

\* One round of the extraction loop of stream_agent_response: `m` is the
\* match of this round's pattern, `data` the action_data so far.  A round
\* whose json.loads raises JSONDecodeError leaves action_data as it was.
ExtractRound(data, m) ==
    IF Truthy(data) THEN data
    ELSE IF m.found /\ JsonLoads(m.group).type # "error" THEN JsonLoads(m.group)
    ELSE data

\* stream_agent_response: action_data after the three extraction methods.
StreamParse(text) ==
    ExtractRound(
        ExtractRound(
            ExtractRound(PyNone, SearchJsonFence(text)),
            SearchAnyFence(text)),
        SearchActionObject(text))

\* ------------------------------------------------------------ the tools

\* The names execute_tool dispatches on.
ToolNames ==
    {"get_consolidated_data", "get_media_summary", "search_media_content",
     "list_json_files", "read_json_file", "keyword_search", "filter_json",
     "aggregate_data", "extract_hashtags", "compare_files"}

\* A descriptor of the catalog: its name and the parameters it describes.
Descriptor(name, params) == [name |-> name, parameters |-> params]

\* A catalog that leaves out the last descriptor.
catalog_without_compare_files ==
    <<Descriptor("get_consolidated_data", {"platform"}),
      Descriptor("get_media_summary", {"platform"}),
      Descriptor("search_media_content", {"query", "platform", "limit"}),
      Descriptor("list_json_files", {"directory"}),
      Descriptor("read_json_file", {"filename"}),
      Descriptor("keyword_search", {"data", "keywords", "case_sensitive"}),
      Descriptor("filter_json", {"data", "filters"}),
      Descriptor("aggregate_data", {"data", "field", "operation"}),
      Descriptor("extract_hashtags", {"data"})>>

\* AIAgent.get_available_tools(): the list literal it returns on every call.
get_available_tools ==
    <<Descriptor("get_consolidated_data", {"platform"}),
      Descriptor("get_media_summary", {"platform"}),
      Descriptor("search_media_content", {"query", "platform", "limit"}),
      Descriptor("list_json_files", {"directory"}),
      Descriptor("read_json_file", {"filename"}),
      Descriptor("keyword_search", {"data", "keywords", "case_sensitive"}),
      Descriptor("filter_json", {"data", "filters"}),
      Descriptor("aggregate_data", {"data", "field", "operation"}),
      Descriptor("extract_hashtags", {"data"}),
      Descriptor("compare_files", {"file1", "file2"})>>

\* The parameters each branch of execute_tool refuses to run without.
RequiredParams(tool) ==
    CASE tool = "search_media_content" -> {"query"}
      [] tool = "read_json_file"       -> {"filename"}
      [] tool = "keyword_search"       -> {"data", "keywords"}
      [] tool = "filter_json"          -> {"data", "filters"}
      [] tool = "aggregate_data"       -> {"data", "field"}
      [] tool = "extract_hashtags"     -> {"data"}
      [] tool = "compare_files"        -> {"file1", "file2"}
      [] OTHER                         -> {}

\* The operations wrapped in @retry_on_error(max_retries=2): an exception of
\* theirs comes back as an error mapping, never as an exception.
Decorated(tool) == tool \in {"list_json_files", "read_json_file"}

\* What one call of an engine operation can do: return a success mapping,
\* return a mapping with an error key, or raise (the case the except clause
\* of execute_tool is written for).
EngineOutcomes(tool) ==
    IF Decorated(tool) THEN {"ok", "error"} ELSE {"ok", "error", "raise"}

\* A tool result: `error` is the value of its error key, None without one.
ToolResult(error, arg, last) == [error |-> error, arg |-> arg, last_error |-> last]

Success == ToolResult(None, "", None)

EngineError == ToolResult("engine error", "", None)

NotADictError == ToolResult("Parameters must be a dictionary", "", None)

UnknownToolError(tool) == ToolResult("Unknown tool: ", tool, None)

MissingError(tool) == ToolResult("Missing required parameter(s): ", tool, None)

FailedAfter(tool, last) ==
    ToolResult("Tool execution failed after max_retries attempts", tool, last)

\* "error" in result
HasError(res) == res.error # None

\* parameters.get(key)
Get(params, key) ==
    IF key \in DOMAIN params.entries THEN params.entries[key] ELSE None

\* not value
Falsy(value) == value \in {None, "falsy"}

EmptyDict == [ptype |-> "dict", entries |-> << >>]

NoValidationError == ToolResult(None, "valid", None)

\* Validate without its final else branch: a name outside the dispatch
\* chain is not refused.
ValidateKnownOnly(tool, params) ==
    IF params.ptype # "dict" THEN NotADictError
    ELSE IF \E p \in RequiredParams(tool) : Falsy(Get(params, p))
         THEN MissingError(tool)
    ELSE NoValidationError

\* The early returns of one attempt of execute_tool, NoValidationError when
\* the attempt reaches the engine operation.
Validate(tool, params) ==
    IF params.ptype # "dict" THEN NotADictError
    ELSE IF tool \notin ToolNames THEN UnknownToolError(tool)
    ELSE IF \E p \in RequiredParams(tool) : Falsy(Get(params, p))
         THEN MissingError(tool)
    ELSE NoValidationError

\* RetryOnResult with the comparison turned around: no result is retried.
RetryOnResultNever(res, att, maxr) == HasError(res) /\ att > maxr - 1

\* The retry test of execute_tool on a returned result.
RetryOnResult(res, att, maxr) == HasError(res) /\ att < maxr - 1

\* The retry test of execute_tool in its except clause.
RetryOnException(att, maxr) == att < maxr - 1

\* ------------------------------------------------------- program constants

\* self.max_iterations = 3
max_iterations == 3

\* max_ai_retries = 2 in stream_agent_response
max_ai_retries == 2

\* execute_tool(..., max_retries: int = 2)
DefaultMaxRetries == 2

\* ------------------------------------------------------------------ bounds

\* Largest max_retries handed to execute_tool and to retry_on_error.
MaxRetries == 3

\* Ceiling on the model invocations of one run that the model explores.
MaxModelCalls == 8

\* ------------------------------------------------------ the model's answers

R_ANSWER        == <<LB, Act("answer"), Resp("done"), RB>>
R_ANSWER_JSON   == <<W, FENCE, JSONTAG, LB, Act("answer"), Resp("done"), RB, FENCE>>
R_ANSWER_FENCE  == <<FENCE, LB, Act("answer"), Resp("done"), RB, FENCE, W>>
R_ANSWER_EMBED  == <<W, LB, Act("answer"), Resp("done"), RB>>
R_ANSWER_BRACE  == <<LB, Act("answer"), Resp("see {x}"), RB>>
R_ANSWER_NORESP == <<LB, Act("answer"), RB>>
R_PROSE         == <<W>>
R_PROSE_FENCE   == <<W, FENCE, W, FENCE>>
R_TOOL_JSON     ==
    <<FENCE, JSONTAG, LB, Act("use_tool"), Tool("read_json_file"), PKEY, LB,
      Par("filename", "truthy"), RB, RB, FENCE>>
R_TOOL_NESTED   ==
    <<LB, Act("use_tool"), Tool("get_consolidated_data"), PKEY, LB,
      Par("platform", "truthy"), RB, RB>>
R_TOOL_FLAT     == <<LB, Act("use_tool"), Tool("get_consolidated_data"), RB>>
R_TOOL_MISSING  == <<LB, Act("use_tool"), Tool("read_json_file"), RB>>
R_TOOL_UNKNOWN  == <<LB, Act("use_tool"), Tool("bogus"), RB>>
R_TOOL_ABSENT   == <<LB, Act("use_tool"), RB>>
R_TOOL_LIST     == <<LB, Act("use_tool"), Tool("read_json_file"), PKEY, LIST, RB>>
R_NUM           == <<NUM>>
R_OTHER         == <<LB, Act("think"), RB>>
R_EMPTY_OBJ     == <<LB, RB>>
R_EMPTY         == << >>

\* The texts response.text.strip() ranges over.
Responses ==
    {R_ANSWER, R_ANSWER_JSON, R_ANSWER_FENCE, R_ANSWER_EMBED, R_ANSWER_BRACE,
     R_ANSWER_NORESP, R_PROSE, R_PROSE_FENCE, R_TOOL_JSON, R_TOOL_NESTED,
     R_TOOL_FLAT, R_TOOL_MISSING, R_TOOL_UNKNOWN, R_TOOL_ABSENT, R_TOOL_LIST,
     R_NUM, R_OTHER, R_EMPTY_OBJ, R_EMPTY}

\* What each loop makes of each text, computed once per text.
RunExtracted == [text \in Responses |-> RunExtract(text)]

RunParsed == [text \in Responses |-> JsonLoads(RunExtract(text))]

StreamParsed == [text \in Responses |-> StreamParse(text)]

\* The parameters mappings execute_tool is called with directly: none, a
\* list, and the required parameters of the tool bound to truthy or to
\* falsy values.
ListParams == [ptype |-> "list", entries |-> << >>]

Bound(tool, v) == [ptype |-> "dict", entries |-> [p \in RequiredParams(tool) |-> v]]

DirectParams(tool) == {EmptyDict, ListParams, Bound(tool, "truthy"), Bound(tool, "falsy")}

DirectTools == ToolNames \cup {"bogus"}

\* ------------------------------------------------------------------- state

VARIABLES
    mode,          \* which entry point runs: AIAgent.run, stream_agent_response,
                   \* a direct execute_tool call, a retry_on_error wrapper
    pc,            \* "think", "tool", "wrap", "done"
    iteration,     \* the loop variable of the agent loop
    ai_attempt,    \* the loop variable of the model retry loop (streaming)
    iterations,    \* AIAgent.run: the list of Iteration Records
    tool_results,  \* streaming: current_context["tool_results"]
    events,        \* streaming: the events yielded so far
    tool_name,     \* execute_tool: its arguments and locals
    parameters,
    max_retries,
    attempt,
    last_error,
    engine_calls,  \* calls of the engine operation (of the wrapped function)
                   \* made by the current execute_tool (wrapper) call
    model_log,     \* every generate_content call so far: what it did
    result,        \* what the entry point returned
    file_system,   \* AnalysisTools: the files the operations read
    request,       \* AnalysisTools: the operation called and its arguments
    reply,         \* AnalysisTools: what the latest call returned
    returned,      \* AnalysisTools: the calls that have returned
    runs           \* agent runs in progress side by side: the frame of each

vars ==
    <<mode, pc, iteration, ai_attempt, iterations, tool_results, events,
      tool_name, parameters, max_retries, attempt, last_error, engine_calls,
      model_log, result, file_system, request, reply, returned, runs>>

engineVars == <<file_system, request, reply, returned, runs>>

loopVars == <<iteration, ai_attempt>>

toolVars == <<tool_name, parameters, max_retries, attempt, last_error, engine_calls>>

outVars == <<iterations, tool_results, events>>

\* The number of model invocations so far.
model_calls == Len(model_log)

\* iterations_completed of stream_agent_response inside its loop.
iterations_completed == iteration + 1

\* A text that is a single string value, and the text of None.
Str(v) == IF v = None THEN <<Tok("NONE", "")>> ELSE <<Tok("STR", v)>>

NoResult ==
    [outcome |-> "none", success |-> FALSE, final_answer |-> << >>,
     total_iterations |-> 0, tool_result |-> Success]

\* Answered reporting the loop index instead of the number of iterations.
AnsweredOffByOne(text, n) ==
    [outcome |-> "Answered", success |-> TRUE, final_answer |-> text,
     total_iterations |-> n - 1, tool_result |-> Success]

\* return {"success": True, ..., "final_answer": ..., "total_iterations": ...}
\* of the answer branch and of the JSONDecodeError branch
Answered(text, n) ==
    [outcome |-> "Answered", success |-> TRUE, final_answer |-> text,
     total_iterations |-> n, tool_result |-> Success]

\* the return after the loop: "Maximum iterations reached"
Exhausted(n) ==
    [outcome |-> "Exhausted", success |-> TRUE,
     final_answer |-> <<Tok("SUMMARY", "")>>,
     total_iterations |-> n, tool_result |-> Success]

\* return {"success": False, "error": ..., "iteration_failed": ...}, and the
\* error event of the streaming loop
Failed(n) ==
    [outcome |-> "Failed", success |-> FALSE, final_answer |-> << >>,
     total_iterations |-> n, tool_result |-> Success]

\* what execute_tool (a wrapped function) handed back to its direct caller
Returned(res) ==
    [outcome |-> "Returned", success |-> TRUE, final_answer |-> << >>,
     total_iterations |-> 0, tool_result |-> res]

Event(type, msg, tool, text, res, n) ==
    [type |-> type, msg |-> msg, tool |-> tool, text |-> text, result |-> res,
     iterations |-> n]

Status(msg) == Event("status", msg, "", << >>, Success, 0)

Content(text) == Event("content", "", "", text, Success, 0)

DoneEvent(n) == Event("done", "", "", << >>, Success, n)

ErrorEvent(msg) == Event("error", msg, "", << >>, Success, 0)

ToolCall(tool) == Event("tool_call", "", tool, << >>, Success, 0)

ToolResultEvent(tool, res) == Event("tool_result", "", tool, << >>, res, 0)

\* A prompt that shows the latest result only.
PromptOfLatest ==
    IF mode = "run"
    THEN [k \in 1..(IF iterations = << >> THEN 0 ELSE 1) |->
            [tool |-> iterations[Len(iterations)].tool,
             result |-> iterations[Len(iterations)].result, cut |-> TRUE]]
    ELSE [k \in 1..(IF tool_results = << >> THEN 0 ELSE 1) |->
            [tool |-> tool_results[Len(tool_results)].tool,
             result |-> tool_results[Len(tool_results)].result, cut |-> FALSE]]

\* What the prompt of a model invocation shows of the earlier iterations.
\* AIAgent.run: "Iteration k: Tool=..., Result=..." for every Iteration
\* Record, the result cut to the first 500 characters of its JSON text.
\* stream_agent_response: json.dumps(current_context), which holds
\* tool_results with the whole of every result.
Prompt ==
    IF mode = "run"
    THEN [k \in 1..Len(iterations) |->
            [tool |-> iterations[k].tool, result |-> iterations[k].result, cut |-> TRUE]]
    ELSE [k \in 1..Len(tool_results) |->
            [tool |-> tool_results[k].tool, result |-> tool_results[k].result,
             cut |-> FALSE]]

LogCall(raised, text) ==
    [iteration |-> iteration, raised |-> raised, text |-> text, prompt |-> Prompt]

Init ==
    /\ mode \in {"run", "stream", "direct", "decorated"}
    /\ pc = CASE mode = "direct" -> "tool"
              [] mode = "decorated" -> "wrap"
              [] OTHER -> "think"
    /\ iteration = 0
    /\ ai_attempt = 0
    /\ iterations = << >>
    /\ tool_results = << >>
    /\ events = << >>
    /\ tool_name \in IF mode = "direct" THEN DirectTools ELSE {None}
    /\ parameters \in IF mode = "direct" THEN DirectParams(tool_name) ELSE {EmptyDict}
    /\ max_retries \in IF mode \in {"direct", "decorated"}
                       THEN 0..MaxRetries ELSE {DefaultMaxRetries}
    /\ attempt = 0
    /\ last_error = None
    /\ engine_calls = 0
    /\ model_log = << >>
    /\ result = NoResult
    /\ file_system = None
    /\ request = None
    /\ reply = None
    /\ returned = 0
    /\ runs = << >>

\* ------------------------------------------------------------ AIAgent.run

\* The end of one pass of `for iteration in range(self.max_iterations)` that
\* did not return: the next pass, or the return after the loop.
RunAdvance ==
    IF iteration + 1 < max_iterations
    THEN /\ iteration' = iteration + 1
         /\ pc' = "think"
         /\ result' = result
    ELSE /\ iteration' = iteration
         /\ pc' = "done"
         /\ result' = Exhausted(max_iterations)

\* execute_tool is entered with these arguments.
EnterTool(tool, params) ==
    /\ pc' = "tool"
    /\ tool_name' = tool
    /\ parameters' = params
    /\ max_retries' = DefaultMaxRetries
    /\ attempt' = 0
    /\ last_error' = None
    /\ engine_calls' = 0

\* action_data.get("parameters", {})
ParametersOf(data) ==
    IF data.parameters.ptype = "absent" THEN EmptyDict ELSE data.parameters

\* self.model.generate_content(prompt) raises: the outer except clause.
RunModelRaises ==
    /\ mode = "run"
    /\ UNCHANGED engineVars
    /\ pc = "think"
    /\ model_calls < MaxModelCalls
    /\ model_log' = Append(model_log, LogCall(TRUE, << >>))
    /\ pc' = "done"
    /\ result' = Failed(iteration + 1)
    /\ UNCHANGED <<mode, loopVars, outVars, toolVars>>

\* self.model.generate_content(prompt) returns `text`: the rest of the pass,
\* up to the call of execute_tool.
RunModelResponds ==
    /\ mode = "run"
    /\ UNCHANGED engineVars
    /\ pc = "think"
    /\ model_calls < MaxModelCalls
    /\ \E text \in Responses :
        LET response_text == RunExtracted[text]
            action_data == RunParsed[text]
        IN  /\ model_log' = Append(model_log, LogCall(FALSE, text))
            /\ IF action_data.type = "error"
               THEN \* except json.JSONDecodeError
                    /\ pc' = "done"
                    /\ result' = Answered(response_text, iteration + 1)
                    /\ UNCHANGED <<iteration, toolVars>>
               ELSE IF ~IsDict(action_data)
               THEN \* action_data.get raises AttributeError: except Exception
                    /\ pc' = "done"
                    /\ result' = Failed(iteration + 1)
                    /\ UNCHANGED <<iteration, toolVars>>
               ELSE IF action_data.action = "answer"
               THEN /\ pc' = "done"
                    /\ result' = Answered(Str(action_data.response), iteration + 1)
                    /\ UNCHANGED <<iteration, toolVars>>
               ELSE IF action_data.action = "use_tool"
               THEN /\ EnterTool(action_data.tool, ParametersOf(action_data))
                    /\ UNCHANGED <<iteration, result>>
               ELSE /\ RunAdvance
                    /\ UNCHANGED toolVars
    /\ UNCHANGED <<mode, ai_attempt, outVars>>

\* ------------------------------------------------- stream_agent_response

\* The events of a pass that starts: the initial status before the loop, and
\* the "Thinking..." status before the model retry loop.
PassEvents ==
    IF ai_attempt > 0 THEN << >>
    ELSE IF iteration = 0 THEN <<Status("Agent initialized"), Status("Thinking")>>
    ELSE <<Status("Thinking")>>

\* The end of a pass that set ai_response_success and did not return; `evs`
\* are the events yielded so far.
StreamAdvance(evs) ==
    IF iteration + 1 < max_iterations
    THEN /\ iteration' = iteration + 1
         /\ ai_attempt' = 0
         /\ pc' = "think"
         /\ events' = evs
         /\ result' = result
    ELSE /\ UNCHANGED loopVars
         /\ pc' = "done"
         /\ events' = evs \o <<Status("Maximum iterations reached"),
                               Content(<<Tok("SUMMARY", "")>>),
                               DoneEvent(iterations_completed)>>
         /\ result' = Exhausted(iterations_completed)

\* StreamExcept that announces the retry and never wakes up from its sleep.
StreamExceptAsleep(evs) ==
    /\ pc' = "asleep"
    /\ events' = evs \o <<Status("Retrying")>>
    /\ UNCHANGED <<loopVars, result>>

\* except Exception inside the model retry loop.
StreamExcept(evs) ==
    IF ai_attempt < max_ai_retries - 1
    THEN /\ ai_attempt' = ai_attempt + 1
         /\ pc' = "think"
         /\ events' = evs \o <<Status("Retrying")>>
         /\ UNCHANGED <<iteration, result>>
    ELSE /\ pc' = "done"
         /\ events' = evs \o <<ErrorEvent("Failed after max_ai_retries attempts")>>
         /\ result' = Failed(iterations_completed)
         /\ UNCHANGED loopVars

\* A final answer that ends the stream after its content event.
StreamAnswerWithoutDone(evs, text) ==
    /\ pc' = "done"
    /\ events' = evs \o <<Status("Complete"), Content(text)>>
    /\ result' = Answered(text, iterations_completed)
    /\ UNCHANGED loopVars

\* The final answer of the streaming loop: status, content, done.
StreamAnswer(evs, text) ==
    /\ pc' = "done"
    /\ events' = evs \o <<Status("Complete"), Content(text),
                          DoneEvent(iterations_completed)>>
    /\ result' = Answered(text, iterations_completed)
    /\ UNCHANGED loopVars

\* agent.model.generate_content(system_prompt) raises.
StreamModelRaises ==
    /\ mode = "stream"
    /\ UNCHANGED engineVars
    /\ pc = "think"
    /\ model_calls < MaxModelCalls
    /\ model_log' = Append(model_log, LogCall(TRUE, << >>))
    /\ StreamExcept(events \o PassEvents)
    /\ UNCHANGED <<mode, iterations, tool_results, toolVars>>

\* not tool_name
NoToolName(tool) == tool \in {None, ""}

\* agent.model.generate_content(system_prompt) returns `text`: the rest of
\* the attempt, up to the call of execute_tool.
StreamModelResponds ==
    /\ mode = "stream"
    /\ UNCHANGED engineVars
    /\ pc = "think"
    /\ model_calls < MaxModelCalls
    /\ \E text \in Responses :
        LET action_data == StreamParsed[text]
            evs == events \o PassEvents
        IN  /\ model_log' = Append(model_log, LogCall(FALSE, text))
            /\ IF text = << >>
               THEN \* raise ValueError("Empty response from AI model")
                    /\ StreamExcept(evs)
                    /\ UNCHANGED toolVars
               ELSE IF Truthy(action_data) /\ IsDict(action_data)
                       /\ action_data.action = "answer"
               THEN /\ StreamAnswer(evs, IF action_data.response = None
                                         THEN text
                                         ELSE Str(action_data.response))
                    /\ UNCHANGED toolVars
               ELSE IF Truthy(action_data) /\ IsDict(action_data)
                       /\ action_data.action = "use_tool"
               THEN IF NoToolName(action_data.tool)
                    THEN \* raise ValueError("Tool name not specified in action")
                         /\ StreamExcept(evs)
                         /\ UNCHANGED toolVars
                    ELSE /\ EnterTool(action_data.tool, ParametersOf(action_data))
                         /\ events' = evs \o <<ToolCall(action_data.tool)>>
                         /\ UNCHANGED <<loopVars, result>>
               ELSE \* no valid JSON action found: the text is the final answer
                    /\ StreamAnswer(evs, text)
                    /\ UNCHANGED toolVars
    /\ UNCHANGED <<mode, iterations, tool_results>>

\* ----------------------------------------------------- AIAgent.execute_tool

\* execute_tool returns `res` to its caller, which goes on: AIAgent.run
\* appends the Iteration Record, stream_agent_response yields the result and
\* extends current_context["tool_results"], the direct caller returns it.
ToolReturn(res) ==
    CASE mode = "run" ->
            /\ iterations' = Append(iterations,
                   [iteration |-> iteration + 1, tool |-> tool_name,
                    parameters |-> parameters, result |-> res])
            /\ RunAdvance
            /\ UNCHANGED <<ai_attempt, tool_results, events>>
      [] mode = "stream" ->
            /\ tool_results' = Append(tool_results,
                   [tool |-> tool_name, result |-> res])
            /\ StreamAdvance(
                   events
                   \o (IF HasError(res) THEN <<Status("Tool error")>> ELSE << >>)
                   \o <<ToolResultEvent(tool_name, res)>>)
            /\ UNCHANGED iterations
      [] OTHER ->
            /\ pc' = "done"
            /\ result' = Returned(res)
            /\ UNCHANGED <<loopVars, outVars>>

\* `for attempt in range(max_retries)` has a pass left.
HasAttempt(att, maxr) == att < maxr

\* One pass of the loop of execute_tool.
ExecuteToolAttempt ==
    /\ mode \in {"run", "stream", "direct"}
    /\ UNCHANGED engineVars
    /\ pc = "tool"
    /\ HasAttempt(attempt, max_retries)
    /\ IF HasError(Validate(tool_name, parameters))
       THEN /\ ToolReturn(Validate(tool_name, parameters))
            /\ UNCHANGED <<attempt, last_error, engine_calls>>
       ELSE /\ engine_calls' = engine_calls + 1
            /\ \E out \in EngineOutcomes(tool_name) :
                CASE out = "ok" ->
                        /\ ToolReturn(Success)
                        /\ UNCHANGED <<attempt, last_error>>
                  [] out = "error" ->
                        IF RetryOnResult(EngineError, attempt, max_retries)
                        THEN /\ last_error' = EngineError.error
                             /\ attempt' = attempt + 1
                             /\ UNCHANGED <<pc, loopVars, outVars, result>>
                        ELSE /\ ToolReturn(EngineError)
                             /\ UNCHANGED <<attempt, last_error>>
                  [] OTHER ->
                        /\ last_error' = "exception"
                        /\ IF RetryOnException(attempt, max_retries)
                           THEN /\ attempt' = attempt + 1
                                /\ UNCHANGED <<pc, loopVars, outVars, result>>
                           ELSE /\ ToolReturn(FailedAfter(tool_name, "exception"))
                                /\ UNCHANGED attempt
    /\ UNCHANGED <<mode, tool_name, parameters, max_retries, model_log>>

\* The return after the loop of execute_tool.
ExecuteToolGiveUp ==
    /\ mode \in {"run", "stream", "direct"}
    /\ UNCHANGED engineVars
    /\ pc = "tool"
    /\ ~HasAttempt(attempt, max_retries)
    /\ ToolReturn(FailedAfter(tool_name, last_error))
    /\ UNCHANGED <<mode, toolVars, model_log>>

\* ----------------------------------------------------------- retry_on_error

\* `for attempt in range(max_retries)` of the wrapper has a pass left.
WrapperHasAttempt(att, maxr) == att < maxr

\* One pass of the loop of wrapper: the wrapped function returns a mapping,
\* or raises and is tried again.
WrapperAttempt ==
    /\ mode = "decorated"
    /\ UNCHANGED engineVars
    /\ pc = "wrap"
    /\ WrapperHasAttempt(attempt, max_retries)
    /\ engine_calls' = engine_calls + 1
    /\ \E out \in {"ok", "error", "raise"} :
        IF out = "raise"
        THEN /\ last_error' = "exception"
             /\ attempt' = attempt + 1
             /\ UNCHANGED <<pc, result>>
        ELSE /\ pc' = "done"
             /\ result' = Returned(IF out = "ok" THEN Success ELSE EngineError)
             /\ UNCHANGED <<attempt, last_error>>
    /\ UNCHANGED <<mode, loopVars, outVars, tool_name, parameters, max_retries,
                   model_log>>

\* The return after the loop of wrapper: the error mapping.
WrapperGiveUp ==
    /\ mode = "decorated"
    /\ UNCHANGED engineVars
    /\ pc = "wrap"
    /\ ~WrapperHasAttempt(attempt, max_retries)
    /\ pc' = "done"
    /\ result' = Returned(ToolResult("Failed after max_retries attempts", "func",
                                     last_error))
    /\ UNCHANGED <<mode, loopVars, outVars, toolVars, model_log>>

\* --------------------------------------------------------------- the system

Next ==
    \/ RunModelRaises
    \/ RunModelResponds
    \/ StreamModelRaises
    \/ StreamModelResponds
    \/ ExecuteToolAttempt
    \/ ExecuteToolGiveUp
    \/ WrapperAttempt
    \/ WrapperGiveUp

Spec == Init /\ [][Next]_vars

\* Every call returns or raises: a step that can be taken is taken.
FairSpec == Spec /\ WF_vars(Next)

\* ------------------------------------------------------------ vocabulary

InLoop == mode \in {"run", "stream"}

Terminal == pc = "done"

\* The latest model invocation.
LastCall == model_log[Len(model_log)]

\* The model answered (did not raise) in its latest invocation.
Responded == InLoop /\ model_log # << >> /\ ~LastCall.raised

\* What the running loop parsed from the latest response.
LoopParsed == IF mode = "run" THEN RunParsed[LastCall.text] ELSE StreamParsed[LastCall.text]

\* The JSON object the model wrote, wherever it stands in the text: from the
\* first opening brace to the last closing brace.
Said(text) ==
    LET opens == {i \in 1..Len(text) : text[i] = LB}
        closes == {i \in 1..Len(text) : text[i] = RB}
    IN  IF opens = {} \/ closes = {} THEN JSONDecodeError
        ELSE JsonLoads(SubSeq(text, MinOf(opens),
                              CHOOSE j \in closes : \A n \in closes : n <= j))

RequestsTool(text) == IsDict(Said(text)) /\ Said(text).action = "use_tool"

IsAnswerText(text) == IsDict(Said(text)) /\ Said(text).action = "answer"

\* Every model invocation so far returned a request to use a tool.
AlwaysRequestsTool ==
    \A k \in 1..Len(model_log) :
        ~model_log[k].raised /\ RequestsTool(model_log[k].text)

\* The latest Iteration Record (AIAgent.run), the latest entry of
\* current_context["tool_results"] (streaming).
HasRecord == IF mode = "run" THEN iterations # << >> ELSE tool_results # << >>

LastRecord ==
    IF mode = "run"
    THEN [tool |-> iterations[Len(iterations)].tool,
          result |-> iterations[Len(iterations)].result]
    ELSE tool_results[Len(tool_results)]

\* --------------------------------------------------------------- claims

\* C1: in an agent run (AIAgent.run and stream_agent_response) in which
\* every model response requests tool use, the number of model invocations
\* never exceeds max_iterations = 3; when the first response is a final
\* answer, exactly one model invocation is issued.
C1_ModelCallsBounded ==
    InLoop =>
        /\ AlwaysRequestsTool => model_calls <= max_iterations
        /\ (model_log # << >> /\ ~model_log[1].raised
                /\ IsAnswerText(model_log[1].text)) => model_calls = 1

\* C2: every agent run, every execute_tool call and every retry_on_error
\* wrapper eventually ends, an agent run in exactly one of the terminal
\* states Answered, Exhausted, Failed; no step is taken after the end.
C2_Terminates ==
    /\ <>[](Terminal /\ (InLoop => result.outcome \in {"Answered", "Exhausted", "Failed"}))
    /\ [][~Terminal]_vars

\* C2 witness: a streaming run has ended after a retried model call and a
\* retried tool call.
C2_Witness ==
    /\ mode = "stream"
    /\ Terminal
    /\ ai_attempt = 1
    /\ attempt = 1
    /\ result.outcome = "Exhausted"

\* C3: when the response parsed at iteration i has action "answer", the run
\* ends at once in Answered with success = true, final_answer equal to the
\* response field, total_iterations = i + 1, and no tool is executed and no
\* Iteration Record appended in that iteration.
C3_AnswerEndsRun ==
    (Responded /\ IsDict(LoopParsed) /\ LoopParsed.action = "answer") =>
        /\ Terminal
        /\ result.outcome = "Answered"
        /\ result.success
        /\ result.total_iterations = LastCall.iteration + 1
        /\ LoopParsed.response # None => result.final_answer = Str(LoopParsed.response)
        /\ Len(iterations) <= LastCall.iteration
        /\ Len(tool_results) <= LastCall.iteration
        /\ \A k \in 1..Len(iterations) : iterations[k].iteration <= LastCall.iteration

\* C3 witness: an answer parsed at iteration 1, after one tool was run.
C3_Witness ==
    /\ Responded
    /\ IsDict(LoopParsed)
    /\ LoopParsed.action = "answer"
    /\ LastCall.iteration = 1
    /\ HasRecord
    /\ Terminal

\* No extraction strategy finds parseable data in the text: not the text
\* itself, not a fenced block, not an embedded object.
Unparseable(text) ==
    /\ text # << >>
    /\ JsonLoads(text).type = "error"
    /\ Said(text).type = "error"
    /\ SearchJsonFence(text).found => JsonLoads(SearchJsonFence(text).group).type = "error"
    /\ SearchAnyFence(text).found => JsonLoads(SearchAnyFence(text).group).type = "error"

\* C4: whenever the response at iteration i cannot be parsed by any
\* extraction strategy, the run ends in Answered with final_answer equal to
\* the raw response text and total_iterations = i + 1.
C4_RawTextIsAnswer ==
    (Responded /\ Unparseable(LastCall.text)) =>
        /\ Terminal
        /\ result.outcome = "Answered"
        /\ result.final_answer = LastCall.text
        /\ result.total_iterations = LastCall.iteration + 1

\* C5: when the model requests use_tool with a tool name that matches no
\* catalog entry (an absent name included), the tool result is the error
\* mapping "Unknown tool: <name>", the run is not ended by it, a record
\* carrying that result is appended and the loop goes on to the next
\* iteration, in both loops.
C5_UnknownToolContinues ==
    (Responded /\ IsDict(LoopParsed) /\ LoopParsed.action = "use_tool"
        /\ LoopParsed.tool \notin ToolNames) =>
        \/ pc = "tool" /\ tool_name = LoopParsed.tool
        \/ /\ HasRecord
           /\ LastRecord.tool = LoopParsed.tool
           /\ LastRecord.result = UnknownToolError(LoopParsed.tool)
           /\ \/ pc = "think" /\ iteration = LastCall.iteration + 1
              \/ /\ Terminal
                 /\ result.outcome = "Exhausted"
                 /\ LastCall.iteration + 1 = max_iterations

\* C6: if every one of the model's responses asks for a tool (none is an
\* answer) and no model call fails, the run ends in Exhausted when the last
\* iteration completes: success = true, total_iterations = max_iterations,
\* max_iterations model invocations, and a record for every iteration.
C6_ExhaustedAfterLastIteration ==
    (InLoop /\ Terminal /\ AlwaysRequestsTool) =>
        /\ result.outcome = "Exhausted"
        /\ result.success
        /\ result.total_iterations = max_iterations
        /\ model_calls = max_iterations
        /\ HasRecord
        /\ mode = "run" => Len(iterations) = max_iterations
        /\ mode = "stream" => Len(tool_results) = max_iterations

\* C7: the run enters Failed on a model-call exception only after that call
\* was retried within the same iteration: one failed model call does not
\* end the run in Failed.
C7_FailedOnlyAfterRetries ==
    (InLoop /\ Terminal /\ result.outcome = "Failed" /\ LastCall.raised) =>
        /\ Len(model_log) >= 2
        /\ model_log[Len(model_log) - 1].iteration = LastCall.iteration

\* The three extraction strategies in their order, the first that yields
\* parseable data winning: a block tagged json, any block, an embedded
\* object with an action key.
FirstParse(text) ==
    IF SearchJsonFence(text).found
       /\ JsonLoads(SearchJsonFence(text).group).type # "error"
    THEN JsonLoads(SearchJsonFence(text).group)
    ELSE IF SearchAnyFence(text).found
            /\ JsonLoads(SearchAnyFence(text).group).type # "error"
    THEN JsonLoads(SearchAnyFence(text).group)
    ELSE IF SearchActionObject(text).found
    THEN JsonLoads(SearchActionObject(text).group)
    ELSE JSONDecodeError

\* C8: the first of the three strategies that yields parseable data
\* determines the action in both loops: a response whose first parseable
\* candidate is {"action": "answer", "response": r} ends the run with
\* final_answer = r.
C8_ThreeStrategies ==
    (Responded /\ IsDict(FirstParse(LastCall.text))
        /\ FirstParse(LastCall.text).action = "answer"
        /\ FirstParse(LastCall.text).response # None) =>
        /\ Terminal
        /\ result.outcome = "Answered"
        /\ result.final_answer = Str(FirstParse(LastCall.text).response)

\* execute_tool is running or has run, on these arguments.
CalledTool == mode = "direct" \/ (InLoop /\ (pc = "tool" \/ HasRecord))

\* The arguments pass no validation: parameters that are no mapping, a name
\* outside the catalog, a required parameter absent or empty.
InvalidArguments ==
    \/ parameters.ptype # "dict"
    \/ tool_name \notin ToolNames
    \/ \E p \in RequiredParams(tool_name) : Falsy(Get(parameters, p))

ValidCall == CalledTool /\ ~InvalidArguments

InvalidCall == CalledTool /\ InvalidArguments

\* The latest execute_tool call has returned, and what it returned.
CallReturned == (mode = "direct" /\ Terminal) \/ (InLoop /\ HasRecord /\ pc # "tool")

ReturnedResult == IF mode = "direct" THEN result.tool_result ELSE LastRecord.result

\* The tool call of the latest model response has returned and the model
\* has not been invoked since.
JustReturned ==
    /\ InLoop
    /\ HasRecord
    /\ pc # "tool"
    /\ IF mode = "run"
       THEN iterations[Len(iterations)].iteration = LastCall.iteration + 1
       ELSE Len(tool_results) = LastCall.iteration + 1

\* The loop went on after the tool call: the next iteration, or the end of
\* the last one.
LoopContinues ==
    \/ pc = "think" /\ iteration = LastCall.iteration + 1
    \/ /\ Terminal
       /\ result.outcome = "Exhausted"
       /\ LastCall.iteration + 1 = max_iterations

\* C9: execute_tool with a valid tool and valid parameters calls the engine
\* operation at most max_retries times; it calls it again exactly when the
\* previous attempt gave an error (or raised) and attempts remain; it
\* returns the first error-free result at once; when every attempt gives an
\* error it returns an error mapping after exactly max_retries calls.
C9_BoundedToolRetries ==
    ValidCall =>
        /\ engine_calls <= max_retries
        /\ pc = "tool" =>
              /\ engine_calls = attempt
              /\ attempt > 0 => last_error # None
              /\ max_retries > 0 => attempt < max_retries
        /\ CallReturned =>
              /\ ~HasError(ReturnedResult) =>
                    ReturnedResult = Success /\ engine_calls = attempt + 1
              /\ HasError(ReturnedResult) => engine_calls = max_retries

\* C9 witness: a direct call that returned a success on its third attempt.
C9_Witness ==
    /\ mode = "direct"
    /\ Terminal
    /\ ValidCall
    /\ engine_calls = 3
    /\ ~HasError(result.tool_result)

\* C10: a validation failure in execute_tool (parameters that are no
\* mapping, a missing required parameter, an unknown tool name) comes back
\* as an error mapping on the first attempt, with no engine operation
\* called and no retry; the agent loop records it and goes on.
C10_ValidationFailsFast ==
    InvalidCall =>
        /\ engine_calls = 0
        /\ attempt = 0
        /\ CallReturned =>
              /\ HasError(ReturnedResult)
              /\ max_retries > 0 =>
                    ReturnedResult =
                        IF parameters.ptype # "dict" THEN NotADictError
                        ELSE IF tool_name \notin ToolNames
                             THEN UnknownToolError(tool_name)
                        ELSE MissingError(tool_name)
        /\ JustReturned => LastRecord.tool = tool_name /\ LoopContinues

\* C10 witness: AIAgent.run recorded the refusal of a parameters list and
\* is about to invoke the model again.
C10_Witness ==
    /\ mode = "run"
    /\ InvalidCall
    /\ JustReturned
    /\ parameters.ptype = "list"
    /\ pc = "think"
    /\ iteration = 1

\* ============================================================ AnalysisTools

\* ------------------------------------------------------------- JSON values

\* A value of json.load: its Python type, its number (bool: 0 or 1; float:
\* an integral float), its characters, and for a list its items, for a dict
\* its keys in insertion order with the values bound to them.
JNode(t, n, s, keys, items) == [t |-> t, n |-> n, s |-> s, keys |-> keys, items |-> items]

JNull == JNode("NoneType", 0, << >>, << >>, << >>)

JBool(b) == JNode("bool", IF b THEN 1 ELSE 0, << >>, << >>, << >>)

JInt(n) == JNode("int", n, << >>, << >>, << >>)

JFloat(n) == JNode("float", n, << >>, << >>, << >>)

JStr(s) == JNode("str", 0, s, << >>, << >>)

JList(items) == JNode("list", 0, << >>, << >>, items)

\* A dict from its <<key, value>> pairs.
JDict(pairs) ==
    JNode("dict", 0, << >>, [i \in 1..Len(pairs) |-> pairs[i][1]],
          [i \in 1..Len(pairs) |-> pairs[i][2]])

\* isinstance(v, (int, float)): bool is a subclass of int.
IsNumber(v) == v.t \in {"bool", "int", "float"}

\* key in obj, obj[key]
HasKey(obj, key) == \E i \in 1..Len(obj.keys) : obj.keys[i] = key

Lookup(obj, key) == obj.items[CHOOSE i \in 1..Len(obj.keys) : obj.keys[i] = key]

\* ------------------------------------------------------------------ strings

\* The characters of the model in code point order.
OrderedChars ==
    <<" ", "#", "'", ",", "-", ".", "0", "1", "2", "3", "4", "5", "6", "7",
      "8", "9", ":", "A", "B", "F", "N", "T", "[", "]", "_", "a", "b", "e",
      "l", "n", "o", "r", "s", "u", "{", "}">>

Ord(c) == CHOOSE i \in 1..Len(OrderedChars) : OrderedChars[i] = c

\* str.lower()
LowerChar(c) == IF c = "A" THEN "a" ELSE IF c = "B" THEN "b"
                ELSE IF c = "F" THEN "f" ELSE IF c = "N" THEN "n"
                ELSE IF c = "T" THEN "t" ELSE c

Lower(s) == [i \in 1..Len(s) |-> LowerChar(s[i])]

\* `k in s` for two strings.
IsSubstr(k, s) ==
    \E i \in 0..(Len(s) - Len(k)) : \A j \in 1..Len(k) : s[i + j] = k[j]

\* s.count(k): the non-overlapping occurrences, counted from the left.
RECURSIVE StrCount(_, _)
StrCount(s, k) ==
    IF Len(k) = 0 THEN Len(s) + 1
    ELSE IF ~IsSubstr(k, s) THEN 0
    ELSE LET at == MinOf({i \in 0..(Len(s) - Len(k)) :
                            \A j \in 1..Len(k) : s[i + j] = k[j]})
         IN  1 + StrCount(SubSeq(s, at + Len(k) + 1, Len(s)), k)

\* \w of the hashtag pattern.
IsWordChar(c) == c \notin {" ", "#", "$", "'", ",", "-", ".", ":", "[", "]", "{", "}"}

\* The decimal digits of a natural number.
RECURSIVE Digits(_)
Digits(n) ==
    LET d == <<"0", "1", "2", "3", "4", "5", "6", "7", "8", "9">>[(n % 10) + 1]
    IN  IF n < 10 THEN <<d>> ELSE Digits(n \div 10) \o <<d>>

\* The concatenation of a sequence of strings with a separator between them.
RECURSIVE Join(_, _)
Join(parts, sep) ==
    IF parts = << >> THEN << >>
    ELSE IF Len(parts) = 1 THEN parts[1]
    ELSE parts[1] \o sep \o Join(Tail(parts), sep)

\* repr(v), and str(v) which differs from it for a string only.
RECURSIVE PyRepr(_)
PyRepr(v) ==
    CASE v.t = "NoneType" -> <<"N", "o", "n", "e">>
      [] v.t = "bool" -> IF v.n = 1 THEN <<"T", "r", "u", "e">>
                         ELSE <<"F", "a", "l", "s", "e">>
      [] v.t = "int" -> IF v.n < 0 THEN <<"-">> \o Digits(-v.n) ELSE Digits(v.n)
      [] v.t = "float" -> (IF v.n < 0 THEN <<"-">> \o Digits(-v.n) ELSE Digits(v.n))
                              \o <<".", "0">>
      [] v.t = "str" -> <<"'">> \o v.s \o <<"'">>
      [] v.t = "list" ->
            <<"[">> \o Join([i \in 1..Len(v.items) |-> PyRepr(v.items[i])], <<",", " ">>)
                \o <<"]">>
      [] OTHER ->
            <<"{">> \o Join([i \in 1..Len(v.items) |->
                                <<"'">> \o v.keys[i] \o <<"'", ":", " ">>
                                    \o PyRepr(v.items[i])], <<",", " ">>)
                \o <<"}">>

PyStr(v) == IF v.t = "str" THEN v.s ELSE PyRepr(v)

\* ------------------------------------------------------ Python comparisons

\* bool(v)
PyTruthy(v) ==
    CASE v.t = "NoneType" -> FALSE
      [] IsNumber(v) -> v.n # 0
      [] v.t = "str" -> v.s # << >>
      [] OTHER -> v.items # << >>

\* a == b: numbers by value whatever their type, dicts whatever the order
\* of their keys.
RECURSIVE PyEq(_, _)
PyEq(a, b) ==
    CASE IsNumber(a) /\ IsNumber(b) -> a.n = b.n
      [] a.t # b.t -> FALSE
      [] a.t = "NoneType" -> TRUE
      [] a.t = "str" -> a.s = b.s
      [] a.t = "list" ->
            /\ Len(a.items) = Len(b.items)
            /\ \A i \in 1..Len(a.items) : PyEq(a.items[i], b.items[i])
      [] OTHER ->
            /\ Len(a.keys) = Len(b.keys)
            /\ \A i \in 1..Len(a.keys) :
                  HasKey(b, a.keys[i]) /\ PyEq(a.items[i], Lookup(b, a.keys[i]))

\* The order of two strings.
StrOrder(x, y) ==
    LET diff == {i \in 1..Len(x) : i <= Len(y) /\ x[i] # y[i]}
    IN  IF diff # {}
        THEN IF Ord(x[MinOf(diff)]) < Ord(y[MinOf(diff)]) THEN "lt" ELSE "gt"
        ELSE IF Len(x) < Len(y) THEN "lt"
        ELSE IF Len(x) > Len(y) THEN "gt" ELSE "eq"

\* The order of a and b under <, >, <=, >=: "lt", "eq", "gt", or "raise"
\* where Python raises TypeError.
RECURSIVE PyOrder(_, _)
PyOrder(a, b) ==
    CASE IsNumber(a) /\ IsNumber(b) ->
            IF a.n < b.n THEN "lt" ELSE IF a.n > b.n THEN "gt" ELSE "eq"
      [] a.t = "str" /\ b.t = "str" -> StrOrder(a.s, b.s)
      [] a.t = "list" /\ b.t = "list" ->
            LET diff == {i \in 1..Len(a.items) :
                            i <= Len(b.items) /\ ~PyEq(a.items[i], b.items[i])}
            IN  IF diff # {} THEN PyOrder(a.items[MinOf(diff)], b.items[MinOf(diff)])
                ELSE IF Len(a.items) < Len(b.items) THEN "lt"
                ELSE IF Len(a.items) > Len(b.items) THEN "gt" ELSE "eq"
      [] OTHER -> "raise"

\* hash(v) is defined.
Hashable(v) == v.t \notin {"list", "dict"}

\* ------------------------------------------------------------ result shapes

\* An error return that also claims success.
ErrorResultWithSuccess(msg) == [error |-> msg, success |-> TRUE]

\* {"error": str(e)} of an except clause, and the error returns.
ErrorResult(msg) == [error |-> msg]

\* What a tree walk gives: the records it appended, or the exception that
\* ended it.
Walked(out) == [raised |-> FALSE, out |-> out]

WalkRaised == [raised |-> TRUE, out |-> << >>]

\* The walks of the children of a node, one after the other.
RECURSIVE Flatten(_)
Flatten(seqs) == IF seqs = << >> THEN << >> ELSE seqs[1] \o Flatten(Tail(seqs))

WalkAll(walks) ==
    IF \E i \in 1..Len(walks) : walks[i].raised THEN WalkRaised
    ELSE Walked(Flatten([i \in 1..Len(walks) |-> walks[i].out]))

\* x[:n] if len(x) > n else x
Truncate(x, n) == IF Len(x) > n THEN SubSeq(x, 1, n) ELSE x

NoKey == <<"-">>

NoCount == -1

Root == <<"r", "o", "o", "t">>

\* ---------------------------------------------------------- keyword_search

\* `if isinstance(keywords, str): keywords = [keywords]`
WrapKeywords(keywords) == IF keywords.t = "str" THEN JList(<<keywords>>) ELSE keywords

\* What `for keyword in keywords` iterates over: the items of a list, the
\* keys of a dict; no other value is iterable.
Iterable(v) == v.t \in {"list", "dict", "str"}

IterItems(v) ==
    CASE v.t = "list" -> v.items
      [] v.t = "dict" -> [i \in 1..Len(v.keys) |-> JStr(v.keys[i])]
      [] OTHER -> [i \in 1..Len(v.s) |-> JStr(<<v.s[i]>>)]

\* A pass of `for keyword in keywords` raises: keywords is not iterable, or
\* a keyword has no lower() and is no left operand of `in`.
KeywordLoopRaises(keywords) ==
    \/ ~Iterable(keywords)
    \/ \E i \in 1..Len(IterItems(keywords)) : IterItems(keywords)[i].t # "str"

\* A test of containment that never folds the case.
KeywordInExact(keyword, text, case_sensitive) == IsSubstr(keyword, text)

\* keyword_str in search_in
KeywordIn(keyword, text, case_sensitive) ==
    IF case_sensitive THEN IsSubstr(keyword, text)
    ELSE IsSubstr(Lower(keyword), Lower(text))

KeywordCount(keyword, text, case_sensitive) ==
    IF case_sensitive THEN StrCount(text, keyword)
    ELSE StrCount(Lower(text), Lower(keyword))

Match(path, keyword, found_in, key, value, match_count) ==
    [path |-> path, keyword |-> keyword, found_in |-> found_in, key |-> key,
     value |-> value, match_count |-> match_count]

\* The records one pass of `for keyword in keywords` appends for a key.
KeyMatches(keywords, cs, path, key, value) ==
    IF KeywordLoopRaises(keywords) THEN WalkRaised
    ELSE LET kws == IterItems(keywords)
         IN  Walked(Flatten([j \in 1..Len(kws) |->
                IF KeywordIn(kws[j].s, key, cs)
                THEN <<Match(path, kws[j].s, "key", key,
                             Truncate(PyStr(value), 200), NoCount)>>
                ELSE << >>]))

\* The records one pass of `for keyword in keywords` appends for a string.
ValueMatches(keywords, cs, path, key, text) ==
    IF KeywordLoopRaises(keywords) THEN WalkRaised
    ELSE LET kws == IterItems(keywords)
         IN  Walked(Flatten([j \in 1..Len(kws) |->
                IF KeywordIn(kws[j].s, text, cs)
                THEN <<Match(path, kws[j].s, "value", key, Truncate(text, 200),
                             KeywordCount(kws[j].s, text, cs))>>
                ELSE << >>]))

RECURSIVE search_recursive(_, _, _, _)
search_recursive(obj, path, keywords, cs) ==
    CASE obj.t = "dict" ->
            WalkAll(Flatten([i \in 1..Len(obj.keys) |->
                LET current_path == path \o <<".">> \o obj.keys[i]
                    value == obj.items[i]
                IN  <<KeyMatches(keywords, cs, current_path, obj.keys[i], value),
                      IF value.t = "str"
                      THEN ValueMatches(keywords, cs, current_path, obj.keys[i], value.s)
                      ELSE search_recursive(value, current_path, keywords, cs)>>]))
      [] obj.t = "list" ->
            WalkAll([i \in 1..Len(obj.items) |->
                search_recursive(obj.items[i],
                                 path \o <<"[">> \o Digits(i - 1) \o <<"]">>,
                                 keywords, cs)])
      [] obj.t = "str" -> ValueMatches(keywords, cs, path, NoKey, obj.s)
      [] OTHER -> Walked(<< >>)

keyword_search(data, keywords, case_sensitive) ==
    LET kws == WrapKeywords(keywords)
        walk == search_recursive(data, Root, kws, case_sensitive)
    IN  IF walk.raised THEN ErrorResult("str(e)")
        ELSE [success |-> TRUE, keywords |-> kws,
              total_matches |-> Len(walk.out), matches |-> walk.out]

\* ------------------------------------------------------------- filter_json

\* The operators of a complex filter in the order check_filters tests them.
FilterOps == <<<<"$", "g", "t">>, <<"$", "l", "t">>, <<"$", "g", "t", "e">>,
               <<"$", "l", "t", "e">>, <<"$", "e", "q">>, <<"$", "n", "e">>,
               <<"$", "i", "n">>, <<"$", "c", "o", "n", "t", "a", "i", "n", "s">>>>

\* `obj_value in container`: "true", "false", or "raise".
PyIn(obj_value, container) ==
    CASE container.t = "list" ->
            IF \E i \in 1..Len(container.items) : PyEq(obj_value, container.items[i])
            THEN "true" ELSE "false"
      [] container.t = "str" ->
            IF obj_value.t # "str" THEN "raise"
            ELSE IF IsSubstr(obj_value.s, container.s) THEN "true" ELSE "false"
      [] container.t = "dict" ->
            IF ~Hashable(obj_value) THEN "raise"
            ELSE IF obj_value.t = "str" /\ HasKey(container, obj_value.s)
                 THEN "true" ELSE "false"
      [] OTHER -> "raise"

\* One `if "$op" in value and not (...)`: "pass" when the test lets the node
\* through, "fail" when it returns False, "raise" when the test raises.
OpTest(k, obj_value, operand) ==
    LET order == PyOrder(obj_value, operand)
        ordered(ok) == IF order = "raise" THEN "raise"
                       ELSE IF order \in ok THEN "pass" ELSE "fail"
    IN  CASE k = 1 -> ordered({"gt"})
          [] k = 2 -> ordered({"lt"})
          [] k = 3 -> ordered({"gt", "eq"})
          [] k = 4 -> ordered({"lt", "eq"})
          [] k = 5 -> IF PyEq(obj_value, operand) THEN "pass" ELSE "fail"
          [] k = 6 -> IF PyEq(obj_value, operand) THEN "fail" ELSE "pass"
          [] k = 7 -> LET in == PyIn(obj_value, operand)
                      IN  IF in = "raise" THEN "raise"
                          ELSE IF in = "true" THEN "pass" ELSE "fail"
          [] OTHER -> IF operand.t # "str" THEN "raise"
                      ELSE IF IsSubstr(operand.s, PyStr(obj_value)) THEN "pass"
                      ELSE "fail"

\* The tests of a complex filter from the k-th on.
RECURSIVE OpTestsFrom(_, _, _)
OpTestsFrom(k, obj_value, value) ==
    IF k > Len(FilterOps) THEN "pass"
    ELSE IF ~HasKey(value, FilterOps[k]) THEN OpTestsFrom(k + 1, obj_value, value)
    ELSE LET t == OpTest(k, obj_value, Lookup(value, FilterOps[k]))
         IN  IF t = "pass" THEN OpTestsFrom(k + 1, obj_value, value) ELSE t

\* `for key, value in filters.items()` from the i-th entry on: "pass" is
\* `return True`.
RECURSIVE FiltersFrom(_, _, _)
FiltersFrom(i, obj, filters) ==
    IF i > Len(filters.keys) THEN "pass"
    ELSE IF ~HasKey(obj, filters.keys[i]) THEN "fail"
    ELSE LET obj_value == Lookup(obj, filters.keys[i])
             value == filters.items[i]
             t == IF value.t = "dict" THEN OpTestsFrom(1, obj_value, value)
                  ELSE IF PyEq(obj_value, value) THEN "pass" ELSE "fail"
         IN  IF t = "pass" THEN FiltersFrom(i + 1, obj, filters) ELSE t

\* check_filters(obj) for a dict; filters.items() raises unless filters is
\* a dict.
check_filters(obj, filters) ==
    IF filters.t # "dict" THEN "raise" ELSE FiltersFrom(1, obj, filters)

\* A walk that does not look inside a mapping that matched.
RECURSIVE filter_outermost(_, _)
filter_outermost(obj, filters) ==
    CASE obj.t = "dict" ->
            LET c == check_filters(obj, filters)
            IN  IF c = "raise" THEN WalkRaised
                ELSE IF c = "pass" THEN Walked(<<obj>>)
                ELSE WalkAll([i \in 1..Len(obj.items) |->
                                filter_outermost(obj.items[i], filters)])
      [] obj.t = "list" ->
            WalkAll([i \in 1..Len(obj.items) |-> filter_outermost(obj.items[i], filters)])
      [] OTHER -> Walked(<< >>)

RECURSIVE filter_recursive(_, _)
filter_recursive(obj, filters) ==
    CASE obj.t = "dict" ->
            LET c == check_filters(obj, filters)
            IN  WalkAll(<<IF c = "raise" THEN WalkRaised
                          ELSE IF c = "pass" THEN Walked(<<obj>>) ELSE Walked(<< >>)>>
                        \o [i \in 1..Len(obj.items) |->
                                filter_recursive(obj.items[i], filters)])
      [] obj.t = "list" ->
            WalkAll([i \in 1..Len(obj.items) |-> filter_recursive(obj.items[i], filters)])
      [] OTHER -> Walked(<< >>)

filter_json(data, filters) ==
    LET walk == filter_recursive(data, filters)
    IN  IF walk.raised THEN ErrorResult("str(e)")
        ELSE [success |-> TRUE, filters_applied |-> filters,
              matches_found |-> Len(walk.out), results |-> walk.out]

\* ---------------------------------------------------------- aggregate_data

\* extract_values: the value of every entry keyed by `field`, which is not
\* walked into; every other value is.
RECURSIVE extract_values(_, _)
extract_values(obj, field) ==
    CASE obj.t = "dict" ->
            Flatten([i \in 1..Len(obj.keys) |->
                IF PyEq(JStr(obj.keys[i]), field) THEN <<obj.items[i]>>
                ELSE extract_values(obj.items[i], field)])
      [] obj.t = "list" ->
            Flatten([i \in 1..Len(obj.items) |-> extract_values(obj.items[i], field)])
      [] OTHER -> << >>

\* Counter(values) as the list of its items: the distinct values in the
\* order of their first occurrence, each with the number of values equal
\* to it.
CounterItems(values) ==
    LET first == {i \in 1..Len(values) :
                     \A j \in 1..(i - 1) : ~PyEq(values[j], values[i])}
        RECURSIVE From(_)
        From(i) ==
            IF i > Len(values) THEN << >>
            ELSE IF i \notin first THEN From(i + 1)
            ELSE <<[value |-> values[i],
                    count |-> Cardinality({j \in 1..Len(values) :
                                              PyEq(values[j], values[i])})]>>
                 \o From(i + 1)
    IN  From(1)

\* sum(numeric_values): a float as soon as one value is a float.
RECURSIVE SumOf(_)
SumOf(ns) == IF ns = << >> THEN 0 ELSE ns[1].n + SumOf(Tail(ns))

\* sum that stops after the first number.
PySumOfFirst(ns) == JInt(ns[1].n)

PySum(ns) ==
    IF \E i \in 1..Len(ns) : ns[i].t = "float" THEN JFloat(SumOf(ns)) ELSE JInt(SumOf(ns))

\* a / b of two numbers, a float: kept as the fraction.
TrueDiv(a, b) == [num |-> a, den |-> b]

\* min(numeric_values), max(numeric_values): the first of the least, the
\* first of the greatest.
PyMin(ns) == ns[MinOf({i \in 1..Len(ns) : \A j \in 1..Len(ns) : ns[i].n <= ns[j].n})]

PyMax(ns) == ns[MinOf({i \in 1..Len(ns) : \A j \in 1..Len(ns) : ns[i].n >= ns[j].n})]

S_count == <<"c", "o", "u", "n", "t">>

S_sum == <<"s", "u", "m">>

S_avg == <<"a", "v", "g">>

S_min == <<"m", "i", "n">>

S_max == <<"m", "a", "x">>

aggregate_data(data, field, operation) ==
    LET values == extract_values(data, field)
        numeric_values == SelectSeq(values, IsNumber)
        op == IF operation.t = "str" THEN operation.s ELSE << >>
        base(res) == [success |-> TRUE, field |-> field, operation |-> operation,
                      total_values |-> Len(values), result |-> res,
                      numeric_values_count |-> Len(numeric_values)]
    IN  IF op = S_count
        THEN IF \E i \in 1..Len(values) : ~Hashable(values[i])
             THEN ErrorResult("str(e)")
             ELSE [success |-> TRUE, field |-> field, operation |-> operation,
                   total_values |-> Len(values), result |-> Len(values),
                   value_counts |-> CounterItems(values)]
        ELSE IF op \in {S_sum, S_avg, S_min, S_max}
        THEN IF numeric_values = << >> THEN ErrorResult("No numeric values found for field")
             ELSE IF op = S_sum THEN base(PySum(numeric_values))
             ELSE IF op = S_avg
                  THEN base(TrueDiv(SumOf(numeric_values), Len(numeric_values)))
             ELSE IF op = S_min THEN base(PyMin(numeric_values))
             ELSE base(PyMax(numeric_values))
        ELSE ErrorResult("Unknown operation")

\* -------------------------------------------------------- extract_hashtags

\* re.findall(r'#(\w+)', text): from the left, each '#' followed by a word
\* character gives the longest run of word characters after it.
RECURSIVE FindHashtags(_)
FindHashtags(text) ==
    LET starts == {i \in 1..(Len(text) - 1) : text[i] = "#" /\ IsWordChar(text[i + 1])}
    IN  IF starts = {} THEN << >>
        ELSE LET at == MinOf(starts)
                 stops == {j \in (at + 1)..Len(text) : ~IsWordChar(text[j])}
                 end == IF stops = {} THEN Len(text) ELSE MinOf(stops) - 1
             IN  <<SubSeq(text, at + 1, end)>>
                    \o FindHashtags(SubSeq(text, end + 1, Len(text)))

RECURSIVE find_hashtags(_)
find_hashtags(obj) ==
    CASE obj.t = "str" -> FindHashtags(obj.s)
      [] obj.t \in {"dict", "list"} ->
            Flatten([i \in 1..Len(obj.items) |-> find_hashtags(obj.items[i])])
      [] OTHER -> << >>

\* Counter(hashtags) as the list of its items, in the order of first
\* occurrence.
HashtagCounts(hashtags) ==
    LET RECURSIVE From(_)
        From(i) ==
            IF i > Len(hashtags) THEN << >>
            ELSE IF \E j \in 1..(i - 1) : hashtags[j] = hashtags[i] THEN From(i + 1)
            ELSE <<[tag |-> hashtags[i],
                    count |-> Cardinality({j \in 1..Len(hashtags) :
                                              hashtags[j] = hashtags[i]})]>>
                 \o From(i + 1)
    IN  From(1)

\* Counter.most_common(n): heapq.nlargest(n, items, key=count), which is
\* sorted(items, key=count, reverse=True)[:n]; the sort is stable.
\* The first n items as they were inserted, not sorted.
MostCommonUnsorted(items, n) == SubSeq(items, 1, IF n < Len(items) THEN n ELSE Len(items))

RECURSIVE MostCommon(_, _)
MostCommon(items, n) ==
    IF n = 0 \/ items = << >> THEN << >>
    ELSE LET best == MinOf({i \in 1..Len(items) :
                              \A j \in 1..Len(items) : items[j].count <= items[i].count})
             rest == [k \in 1..(Len(items) - 1) |->
                         IF k < best THEN items[k] ELSE items[k + 1]]
         IN  <<items[best]>> \o MostCommon(rest, n - 1)

extract_hashtags(data) ==
    LET hashtags == find_hashtags(data)
        hashtag_counts == HashtagCounts(hashtags)
    IN  [success |-> TRUE, total_hashtags |-> Len(hashtags),
         unique_hashtags |-> Len(hashtag_counts),
         top_10 |-> MostCommon(hashtag_counts, 10),
         all_hashtags |-> hashtag_counts]

\* ------------------------------------------------------------------- files

\* A path of the file system: absent, not to be opened (PermissionError,
\* UnicodeDecodeError), holding text that is no JSON, or holding a JSON
\* document.
FileOf(kind, data) == [kind |-> kind, data |-> data]

MissingFile == FileOf("missing", JNull)

DeniedFile == FileOf("denied", JNull)

GarbageFile == FileOf("garbage", JNull)

JsonFile(data) == FileOf("json", data)

RepairableFile(data) == FileOf("repairable", data)

\* path.exists()
Exists(f) == f.kind # "missing"

\* The file a path names; a path that is no string names none (Path() and
\* open() raise TypeError).
FileAt(fs, path) ==
    IF path.t = "str" /\ path.s \in DOMAIN fs.files THEN fs.files[path.s] ELSE MissingFile

\* open(path) followed by json.load(f) raises.
LoadRaises(f) == f.kind # "json"

S_instagram == <<"i", "n", "s", "t", "a", "g", "r", "a", "m">>

S_youtube == <<"y", "o", "u", "t", "u", "b", "e">>

S_all == <<"a", "l", "l">>

\* platform in ["instagram", "all"], platform in ["youtube", "all"]
WantsInstagram(platform) == platform.t = "str" /\ platform.s \in {S_instagram, S_all}

WantsYoutube(platform) == platform.t = "str" /\ platform.s \in {S_youtube, S_all}

\* The body shared by get_consolidated_data and get_media_summary: the two
\* files of the data directory loaded into `result`.
LoadPlatforms(data_dir, instagram_file, youtube_file, platform) ==
    LET load_instagram == WantsInstagram(platform) /\ Exists(instagram_file)
        load_youtube == WantsYoutube(platform) /\ Exists(youtube_file)
        loaded == JDict((IF load_instagram THEN <<<<S_instagram, instagram_file.data>>>>
                         ELSE << >>)
                        \o (IF load_youtube THEN <<<<S_youtube, youtube_file.data>>>>
                            ELSE << >>))
    IN  IF ~data_dir THEN ErrorResult("Consolidated data not found")
        ELSE IF \/ load_instagram /\ LoadRaises(instagram_file)
                \/ load_youtube /\ LoadRaises(youtube_file)
             THEN ErrorResult("Failed to load")
        ELSE IF ~PyTruthy(loaded) THEN ErrorResult("No data found for platform")
        ELSE [loaded |-> loaded]

get_consolidated_data(fs, platform) ==
    LET r == LoadPlatforms(fs.data_dir, fs.instagram_consolidated,
                           fs.youtube_consolidated, platform)
    IN  IF "error" \in DOMAIN r
        THEN IF fs.data_dir THEN r
             ELSE [error |-> r.error, suggestion |-> "python consolidate_media_data.py"]
        ELSE [success |-> TRUE, platform |-> platform, data |-> r.loaded]

get_media_summary(fs, platform) ==
    LET r == LoadPlatforms(fs.data_dir, fs.instagram_summary,
                           fs.youtube_summary, platform)
    IN  IF "error" \in DOMAIN r THEN r
        ELSE [success |-> TRUE, platform |-> platform, summaries |-> r.loaded]

\* ---------------------------------------------------- search_media_content

S_posts == <<"p", "o", "s", "t", "s">>

S_caption == <<"c", "a", "p", "t", "i", "o", "n">>

S_hashtags == <<"h", "a", "s", "h", "t", "a", "g", "s">>

S_likes == <<"l", "i", "k", "e", "s">>

S_comments == <<"c", "o", "m", "m", "e", "n", "t", "s">>

S_creator == <<"c", "r", "e", "a", "t", "o", "r">>

S_type == <<"t", "y", "p", "e">>

S_url == <<"u", "r", "l">>

S_videos == <<"v", "i", "d", "e", "o", "s">>

S_title == <<"t", "i", "t", "l", "e">>

S_description == <<"d", "e", "s", "c", "r", "i", "p", "t", "i", "o", "n">>

S_tags == <<"t", "a", "g", "s">>

S_views == <<"v", "i", "e", "w", "s">>

S_channel == <<"c", "h", "a", "n", "n", "e", "l">>

\* obj.get(key, default)
DictGet(obj, key, default) == IF HasKey(obj, key) THEN Lookup(obj, key) ELSE default

\* [h.lower() for h in v] raises: v is not iterable or an item has no lower().
LowerAllRaises(v) ==
    \/ ~Iterable(v)
    \/ \E i \in 1..Len(IterItems(v)) : IterItems(v)[i].t # "str"

\* " ".join([h.lower() for h in v])
JoinLowered(v) == Join([i \in 1..Len(IterItems(v)) |-> Lower(IterItems(v)[i].s)], <<" ">>)

\* v[:n] of a list or a string; a dict cannot be sliced.
SliceRaises(v) == v.t \notin {"list", "str"}

Slice(v, n) ==
    IF v.t = "list" THEN JList(Truncate(v.items, n)) ELSE JStr(Truncate(v.s, n))

\* a + b + c of the ranking key raises unless all three are numbers.
Scored(rec, a, b, c) ==
    IF IsNumber(a) /\ IsNumber(b) /\ IsNumber(c)
    THEN [raised |-> FALSE, rec |-> rec, score |-> a.n + b.n + c.n]
    ELSE [raised |-> TRUE, rec |-> rec, score |-> 0]

\* One pass of `for post in data["instagram"].get("posts", [])`.
InstagramPost(post, query_lower) ==
    LET caption == DictGet(post, S_caption, JStr(<< >>))
        hashtags == DictGet(post, S_hashtags, JList(<< >>))
        likes == DictGet(post, S_likes, JInt(0))
        comments == DictGet(post, S_comments, JInt(0))
    IN  IF post.t # "dict" \/ caption.t # "str" \/ LowerAllRaises(hashtags) THEN WalkRaised
        ELSE IF ~(\/ IsSubstr(query_lower, Lower(caption.s))
                  \/ IsSubstr(query_lower, JoinLowered(hashtags)))
             THEN Walked(<< >>)
        ELSE IF SliceRaises(hashtags) THEN WalkRaised
        ELSE Walked(<<Scored([platform |-> S_instagram,
                              type |-> DictGet(post, S_type, JStr(<< >>)),
                              url |-> DictGet(post, S_url, JStr(<< >>)),
                              caption |-> Truncate(caption.s, 200),
                              hashtags |-> Slice(hashtags, 10),
                              likes |-> likes,
                              comments |-> comments,
                              creator |-> DictGet(post, S_creator, JStr(<< >>))],
                             likes, JInt(0), comments)>>)

\* One pass of `for video in data["youtube"].get("videos", [])`.
YoutubeVideo(video, query_lower) ==
    LET title == DictGet(video, S_title, JStr(<< >>))
        description == DictGet(video, S_description, JStr(<< >>))
        tags == DictGet(video, S_tags, JList(<< >>))
        views == DictGet(video, S_views, JInt(0))
        likes == DictGet(video, S_likes, JInt(0))
    IN  IF \/ video.t # "dict"
           \/ title.t # "str"
           \/ description.t # "str"
           \/ LowerAllRaises(tags)
        THEN WalkRaised
        ELSE IF ~(\/ IsSubstr(query_lower, Lower(title.s))
                  \/ IsSubstr(query_lower, Lower(description.s))
                  \/ IsSubstr(query_lower, JoinLowered(tags)))
             THEN Walked(<< >>)
        ELSE IF SliceRaises(tags) THEN WalkRaised
        ELSE Walked(<<Scored([platform |-> S_youtube,
                              url |-> DictGet(video, S_url, JStr(<< >>)),
                              title |-> Truncate(title.s, 200),
                              description |-> Truncate(description.s, 200),
                              tags |-> Slice(tags, 10),
                              views |-> views,
                              likes |-> likes,
                              channel |-> DictGet(video, S_channel, JStr(<< >>))],
                             likes, views, JInt(0))>>)

\* The loop over one platform's records: platform_data.get(key, []) raises
\* unless the platform's document is a dict, the loop unless the records
\* are iterable.
PlatformResults(data, platform, key, query_lower) ==
    IF ~HasKey(data, platform) THEN Walked(<< >>)
    ELSE LET doc == Lookup(data, platform)
             records == IF doc.t = "dict" THEN DictGet(doc, key, JList(<< >>)) ELSE JNull
         IN  IF doc.t # "dict" \/ ~Iterable(records) THEN WalkRaised
             ELSE WalkAll([i \in 1..Len(IterItems(records)) |->
                     IF platform = S_instagram
                     THEN InstagramPost(IterItems(records)[i], query_lower)
                     ELSE YoutubeVideo(IterItems(records)[i], query_lower)])

\* sorted(results, key=score, reverse=True): stable, records of equal score
\* keep their order.
\* The results as they were found, not sorted.
NotSortedByScore(items) == items

RECURSIVE SortedByScore(_)
SortedByScore(items) ==
    IF items = << >> THEN << >>
    ELSE LET best == MinOf({i \in 1..Len(items) :
                              \A j \in 1..Len(items) : items[j].score <= items[i].score})
             rest == [k \in 1..(Len(items) - 1) |->
                         IF k < best THEN items[k] ELSE items[k + 1]]
         IN  <<items[best]>> \o SortedByScore(rest)

\* results[:limit]: limit is an integer or None, a negative one counts from
\* the end.
LimitRaises(limit) == limit.t \notin {"int", "bool", "NoneType"}

Limited(items, limit) ==
    IF limit.t = "NoneType" THEN items
    ELSE IF limit.n >= 0 THEN Truncate(items, limit.n)
    ELSE IF Len(items) + limit.n <= 0 THEN << >>
    ELSE SubSeq(items, 1, Len(items) + limit.n)

search_media_content(fs, query, platform, limit) ==
    LET consolidated == get_consolidated_data(fs, platform)
        query_lower == Lower(query.s)
        found == WalkAll(<<PlatformResults(consolidated.data, S_instagram, S_posts, query_lower),
                           PlatformResults(consolidated.data, S_youtube, S_videos, query_lower)>>)
        ranked == SortedByScore(found.out)
        results == Limited([i \in 1..Len(ranked) |-> ranked[i].rec], limit)
    IN  IF "error" \in DOMAIN consolidated THEN consolidated
        ELSE IF query.t # "str" \/ found.raised THEN ErrorResult("Search failed")
        ELSE IF \E i \in 1..Len(found.out) : found.out[i].raised
             THEN ErrorResult("Search failed")
        ELSE IF LimitRaises(limit) THEN ErrorResult("Search failed")
        ELSE [success |-> TRUE, query |-> query,
              total_results |-> Len(results), results |-> results]

\* ----------------------------------------------------------- compare_files

\* set(obj1.keys()) | set(obj2.keys()) in one of the orders its iteration
\* can have.
\* The keys of the first mapping only.
AllKeysOfFirst(obj1, obj2, reversed) == obj1.keys

AllKeys(obj1, obj2, reversed) ==
    LET union == obj1.keys \o SelectSeq(obj2.keys, LAMBDA k : ~HasKey(obj1, k))
    IN  IF reversed THEN [i \in 1..Len(union) |-> union[Len(union) + 1 - i]] ELSE union

RECURSIVE compare_recursive(_, _, _, _)
compare_recursive(obj1, obj2, path, reversed) ==
    IF obj1.t # obj2.t
    THEN <<[path |-> path, type |-> "type_mismatch",
            file1_type |-> obj1.t, file2_type |-> obj2.t]>>
    ELSE CASE obj1.t = "dict" ->
                LET all_keys == AllKeys(obj1, obj2, reversed)
                IN  Flatten([i \in 1..Len(all_keys) |->
                        LET key == all_keys[i]
                            current_path == path \o <<".">> \o key
                        IN  IF ~HasKey(obj1, key)
                            THEN <<[path |-> current_path, type |-> "missing_in_file1",
                                    value |-> Lookup(obj2, key)]>>
                            ELSE IF ~HasKey(obj2, key)
                            THEN <<[path |-> current_path, type |-> "missing_in_file2",
                                    value |-> Lookup(obj1, key)]>>
                            ELSE compare_recursive(Lookup(obj1, key), Lookup(obj2, key),
                                                   current_path, reversed)])
           [] obj1.t = "list" ->
                (IF Len(obj1.items) # Len(obj2.items)
                 THEN <<[path |-> path, type |-> "length_mismatch",
                         file1_length |-> Len(obj1.items),
                         file2_length |-> Len(obj2.items)]>>
                 ELSE << >>)
                \o Flatten([idx \in 1..(IF Len(obj1.items) < Len(obj2.items)
                                        THEN Len(obj1.items) ELSE Len(obj2.items)) |->
                        compare_recursive(obj1.items[idx], obj2.items[idx],
                                          path \o <<"[">> \o Digits(idx - 1) \o <<"]">>,
                                          reversed)])
           [] OTHER ->
                IF ~PyEq(obj1, obj2)
                THEN <<[path |-> path, type |-> "value_mismatch",
                        file1_value |-> Truncate(PyStr(obj1), 100),
                        file2_value |-> Truncate(PyStr(obj2), 100)]>>
                ELSE << >>

compare_files(fs, file1, file2, reversed) ==
    IF LoadRaises(FileAt(fs, file1)) \/ LoadRaises(FileAt(fs, file2))
    THEN ErrorResult("str(e)")
    ELSE LET diffs == compare_recursive(FileAt(fs, file1).data, FileAt(fs, file2).data,
                                        Root, reversed)
         IN  [success |-> TRUE, file1 |-> file1, file2 |-> file2,
              differences_count |-> Len(diffs), differences |-> Truncate(diffs, 50)]

\* ---------------------------------------------------------- list_json_files

\* round(size / 1024, 2) in hundredths, a tie going to the even hundredth.
SizeKb(size) ==
    LET q == (size * 100) \div 1024
        r == (size * 100) % 1024
    IN  IF r * 2 > 1024 \/ (r * 2 = 1024 /\ q % 2 = 1) THEN q + 1 ELSE q

\* sorted(json_files, key=modified, reverse=True): stable.
RECURSIVE SortedByModified(_)
SortedByModified(items) ==
    IF items = << >> THEN << >>
    ELSE LET best == MinOf({i \in 1..Len(items) :
                              \A j \in 1..Len(items) : items[j].modified <= items[i].modified})
             rest == [k \in 1..(Len(items) - 1) |->
                         IF k < best THEN items[k] ELSE items[k + 1]]
         IN  <<items[best]>> \o SortedByModified(rest)

\* The directory is absent, or lists its *.json entries in the order of
\* path.glob; an entry whose stat() raises is skipped.
list_json_files(fs, directory) ==
    IF directory.t # "str" THEN ErrorResult("str(e)")
    ELSE IF ~fs.listing.exists THEN ErrorResult("Directory not found")
    ELSE LET json_files ==
                 Flatten([i \in 1..Len(fs.listing.entries) |->
                     LET file == fs.listing.entries[i]
                     IN  IF ~file.stat_ok THEN << >>
                         ELSE <<[filename |-> file.name, size_bytes |-> file.size,
                                 size_kb |-> SizeKb(file.size),
                                 modified |-> file.modified]>>])
         IN  [success |-> TRUE, count |-> Len(json_files),
              files |-> SortedByModified(json_files)]

\* ----------------------------------------------------------- read_json_file

\* safe_json_loads(content): the document, also of a text its repairs turn
\* into JSON; None for any other text, and for the document null.
safe_json_loads(f) == IF f.kind \in {"json", "repairable"} THEN f.data ELSE JNull

\* The file of `filename`, or of the first search directory that has it.
ResolvePath(fs, filename) ==
    IF Exists(FileAt(fs, filename)) \/ filename.s \notin DOMAIN fs.elsewhere
    THEN FileAt(fs, filename)
    ELSE fs.elsewhere[filename.s]

read_json_file(fs, filename) ==
    LET f == ResolvePath(fs, filename)
        data == safe_json_loads(f)
    IN  IF filename.t # "str" THEN [error |-> "Unexpected error", filename |-> filename]
        ELSE IF ~Exists(f) THEN ErrorResult("File not found in any known location")
        ELSE IF f.kind = "denied"
             THEN [error |-> "Permission denied", filename |-> filename]
        ELSE IF data.t = "NoneType"
             THEN [error |-> "Failed to parse JSON file", filename |-> filename,
                   content_preview |-> f.kind]
        ELSE [success |-> TRUE, filename |-> filename, data |-> data,
              summary |-> [type |-> data.t,
                           keys |-> IF data.t = "dict" THEN JList([i \in 1..Len(data.keys) |->
                                                                    JStr(data.keys[i])])
                                    ELSE JNull,
                           length |-> IF data.t \in {"list", "dict"}
                                      THEN JInt(Len(data.items)) ELSE JNull]]

\* ------------------------------------------ execute_tool on JSON parameters

S_platform == <<"p", "l", "a", "t", "f", "o", "r", "m">>

S_query == <<"q", "u", "e", "r", "y">>

S_limit == <<"l", "i", "m", "i", "t">>

S_directory == <<"d", "i", "r", "e", "c", "t", "o", "r", "y">>

S_filename == <<"f", "i", "l", "e", "n", "a", "m", "e">>

S_data == <<"d", "a", "t", "a">>

S_keywords == <<"k", "e", "y", "w", "o", "r", "d", "s">>

S_case_sensitive == <<"c", "a", "s", "e", "_", "s", "e", "n", "s", "i", "t", "i", "v", "e">>

S_filters == <<"f", "i", "l", "t", "e", "r", "s">>

S_field == <<"f", "i", "e", "l", "d">>

S_operation == <<"o", "p", "e", "r", "a", "t", "i", "o", "n">>

S_file1 == <<"f", "i", "l", "e", "1">>

S_file2 == <<"f", "i", "l", "e", "2">>

\* One pass of the loop of execute_tool on the parameters the model or the
\* caller wrote: the early return of a validation, or the result of the
\* engine operation. `reversed` is the iteration order left open in
\* compare_files.
Dispatch(fs, tool, params, reversed) ==
    LET get(key, default) == DictGet(params, key, default)
        data == get(S_data, JNull)
    IN  IF params.t # "dict" THEN ErrorResult("Parameters must be a dictionary")
        ELSE CASE tool = "get_consolidated_data" ->
                    get_consolidated_data(fs, get(S_platform, JStr(S_all)))
               [] tool = "get_media_summary" ->
                    get_media_summary(fs, get(S_platform, JStr(S_all)))
               [] tool = "search_media_content" ->
                    IF ~PyTruthy(get(S_query, JNull))
                    THEN ErrorResult("Missing required parameter: query")
                    ELSE search_media_content(fs, get(S_query, JNull),
                                              get(S_platform, JStr(S_all)),
                                              get(S_limit, JInt(20)))
               [] tool = "list_json_files" ->
                    list_json_files(fs, get(S_directory, JStr(<<".">>)))
               [] tool = "read_json_file" ->
                    IF ~PyTruthy(get(S_filename, JNull))
                    THEN ErrorResult("Missing required parameter: filename")
                    ELSE read_json_file(fs, get(S_filename, JNull))
               [] tool = "keyword_search" ->
                    IF ~PyTruthy(data) \/ ~PyTruthy(get(S_keywords, JNull))
                    THEN ErrorResult("Missing required parameters: data, keywords")
                    ELSE keyword_search(data, get(S_keywords, JNull),
                                        PyTruthy(get(S_case_sensitive, JBool(FALSE))))
               [] tool = "filter_json" ->
                    IF ~PyTruthy(data) \/ ~PyTruthy(get(S_filters, JNull))
                    THEN ErrorResult("Missing required parameters: data, filters")
                    ELSE filter_json(data, get(S_filters, JNull))
               [] tool = "aggregate_data" ->
                    IF ~PyTruthy(data) \/ ~PyTruthy(get(S_field, JNull))
                    THEN ErrorResult("Missing required parameters: data, field")
                    ELSE aggregate_data(data, get(S_field, JNull),
                                        get(S_operation, JStr(S_count)))
               [] tool = "extract_hashtags" ->
                    IF ~PyTruthy(data) THEN ErrorResult("Missing required parameter: data")
                    ELSE extract_hashtags(data)
               [] tool = "compare_files" ->
                    IF ~PyTruthy(get(S_file1, JNull)) \/ ~PyTruthy(get(S_file2, JNull))
                    THEN ErrorResult("Missing required parameters: file1, file2")
                    ELSE compare_files(fs, get(S_file1, JNull), get(S_file2, JNull), reversed)
               [] OTHER -> ErrorResult("Unknown tool")

\* ------------------------------------------------------------------ inputs

\* Longest list of a document.
MaxItems == 2

\* Most calls of one operation on the same arguments.
MaxCalls == 2

KA == <<"a">>

KB == <<"b">>

\* The leaves of the documents: every JSON type, strings with and without
\* hashtags and capitals.
Leaves ==
    {JNull, JBool(TRUE), JInt(1), JInt(2), JFloat(1), JStr(<< >>), JStr(KA),
     JStr(<<"A", "b">>), JStr(<<"#", "a">>), JStr(<<"#", "b", " ", "#", "a">>)}

\* The lists of at most MaxItems members of S, the dicts that bind the keys
\* a and b, in either order, to members of S.
ListsOf(S) == {JList(items) : items \in UNION {[1..n -> S] : n \in 0..MaxItems}}

KeySeqs == {<< >>, <<KA>>, <<KB>>, <<KA, KB>>, <<KB, KA>>}

DictsOf(S) ==
    UNION {{JNode("dict", 0, << >>, ks, vs) : vs \in [1..Len(ks) -> S]} : ks \in KeySeqs}

\* The members of the containers of depth two.
Inner ==
    {JInt(1), JInt(2), JStr(KA), JStr(<<"#", "a">>),
     JList(<<JInt(1), JStr(KA)>>), JList(<<JStr(<<"#", "b">>)>>),
     JDict(<<<<KA, JInt(2)>>, <<KB, JStr(KB)>>>>), JDict(<<<<KA, JStr(KA)>>>>),
     JDict(<<<<KB, JInt(1)>>>>)}

Docs == Leaves \cup ListsOf(Leaves) \cup DictsOf(Leaves) \cup ListsOf(Inner) \cup DictsOf(Inner)

\* Thirteen hashtags of one character, and texts that repeat some of them.
TagChars == <<"a", "b", "0", "1", "2", "3", "4", "5", "6", "7", "8", "9", "_">>

TagText(order) == Flatten([i \in 1..Len(order) |-> <<"#", TagChars[order[i]], " ">>])

HashtagDocs ==
    {JStr(TagText(<<1, 2, 3, 4, 5, 6, 7, 8, 9, 10, 11, 12, 13>>)),
     JList(<<JStr(TagText(<<1, 2, 3, 4, 5, 6, 7, 8, 9, 10, 11, 12>>)),
             JStr(TagText(<<12, 11, 12, 3>>))>>),
     JDict(<<<<KA, JStr(TagText(<<5, 4, 3, 2, 1, 6, 7, 8, 9, 10>>))>>,
             <<KB, JList(<<JStr(TagText(<<11, 11, 10, 10, 1>>)), JInt(1)>>)>>>>)}

\* The keywords arguments: lists of strings, one string, and what is no
\* list of strings.
KeywordArgs ==
    {JList(<< >>), JList(<<JStr(KA)>>), JList(<<JStr(<<"A">>), JStr(KB)>>),
     JList(<<JStr(<< >>)>>), JStr(KB), JList(<<JStr(KA), JInt(1)>>), JNull}

\* {"$op": operand}
FOp(k, operand) == <<FilterOps[k], operand>>

\* The filters arguments: literals, every operator, two keys, and filters
\* that are malformed.
FilterArgs ==
    {JDict(<< >>),
     JDict(<<<<KA, JInt(1)>>>>),
     JDict(<<<<KA, JStr(KA)>>>>),
     JDict(<<<<KA, JInt(2)>>, <<KB, JStr(KB)>>>>),
     JDict(<<<<KA, JDict(<<FOp(1, JInt(1))>>)>>>>),
     JDict(<<<<KA, JDict(<<FOp(2, JInt(2))>>)>>>>),
     JDict(<<<<KA, JDict(<<FOp(3, JInt(2))>>)>>>>),
     JDict(<<<<KA, JDict(<<FOp(4, JInt(1))>>)>>>>),
     JDict(<<<<KA, JDict(<<FOp(5, JInt(1))>>)>>>>),
     JDict(<<<<KA, JDict(<<FOp(6, JInt(1))>>)>>>>),
     JDict(<<<<KA, JDict(<<FOp(7, JList(<<JInt(2), JStr(KA)>>))>>)>>>>),
     JDict(<<<<KA, JDict(<<FOp(8, JStr(KA))>>)>>>>),
     JDict(<<<<KA, JDict(<<FOp(3, JInt(1)), FOp(2, JInt(2))>>)>>>>),
     JDict(<<<<KB, JDict(<<FOp(1, JInt(0))>>)>>, <<KA, JInt(2)>>>>),
     JDict(<<<<KA, JDict(<<FOp(8, JInt(1))>>)>>>>),
     JDict(<<<<KA, JDict(<<FOp(7, JInt(1))>>)>>>>),
     JNull}

FieldArgs == {JStr(KA), JStr(KB), JNull}

OperationArgs ==
    {JStr(S_count), JStr(S_sum), JStr(S_avg), JStr(S_min), JStr(S_max),
     JStr(<<"m", "e", "d">>), JNull}

\* An Instagram post and a YouTube video of the consolidated files.
Post(caption, hashtags, likes, comments) ==
    JDict(<<<<S_caption, caption>>, <<S_hashtags, hashtags>>,
            <<S_likes, likes>>, <<S_comments, comments>>>>)

Video(title, tags, views, likes) ==
    JDict(<<<<S_title, title>>, <<S_tags, tags>>, <<S_views, views>>, <<S_likes, likes>>>>)

Posts ==
    {Post(JStr(KA), JList(<<JStr(KB)>>), JInt(2), JInt(0)),
     Post(JStr(<<"A", "b">>), JList(<< >>), JInt(1), JInt(1)),
     Post(JStr(KB), JList(<<JStr(KA), JStr(KB)>>), JInt(5), JInt(0)),
     Post(JNull, JList(<< >>), JInt(1), JInt(1)),
     Post(JStr(KA), JList(<< >>), JStr(KA), JInt(1))}

Videos ==
    {Video(JStr(KA), JList(<<JStr(KB)>>), JInt(1), JInt(1)),
     Video(JStr(KB), JList(<<JStr(KA)>>), JInt(3), JInt(0))}

\* The states of the two consolidated files: absent, unreadable, and
\* documents with well-formed and malformed records.
InstagramFiles ==
    {MissingFile, GarbageFile, DeniedFile, JsonFile(JList(<< >>)), JsonFile(JDict(<< >>))}
        \cup {JsonFile(JDict(<<<<S_posts, JList(ps)>>>>)) :
                ps \in UNION {[1..n -> Posts] : n \in 1..MaxItems}}

YoutubeFiles ==
    {MissingFile, GarbageFile}
        \cup {JsonFile(JDict(<<<<S_videos, JList(vs)>>>>)) :
                vs \in UNION {[1..n -> Videos] : n \in 1..MaxItems}}

SummaryFiles == {MissingFile, GarbageFile, JsonFile(JDict(<< >>)), JsonFile(JInt(1))}

PlatformArgs == {JStr(S_all), JStr(S_instagram), JStr(S_youtube), JStr(KA), JNull}

QueryArgs == {JStr(KA), JStr(<<"B">>), JStr(<< >>), JInt(1)}

LimitArgs == {JInt(20), JInt(1), JInt(0), JInt(-1), JNull, JStr(KA)}

\* The documents of the files compare_files and read_json_file read.
FileDocs ==
    {JNull, JBool(TRUE), JInt(1), JInt(2), JFloat(1), JStr(KA)}
        \cup ListsOf({JInt(1), JFloat(1), JStr(KA)})
        \cup DictsOf({JInt(1), JStr(KA)})
        \cup {JDict(<<<<KA, JList(<<JInt(1), JDict(<<<<KB, JInt(2)>>>>)>>)>>>>),
              JDict(<<<<KA, JList(<<JInt(1), JDict(<<<<KB, JInt(1)>>>>)>>)>>>>),
              JList(<<JDict(<<<<KA, JInt(1)>>, <<KB, JInt(2)>>>>)>>)}

PlainFiles ==
    {MissingFile, DeniedFile, GarbageFile, RepairableFile(JInt(1))}
        \cup {JsonFile(d) : d \in FileDocs}

PathArgs == {JStr(KA), JStr(KB), JStr(<<"_">>), JNull}

\* The entries of the listed directory.
Entry(name, size, modified, stat_ok) ==
    [name |-> name, size |-> size, modified |-> modified, stat_ok |-> stat_ok]

Entries ==
    {Entry(KA, 128, 1, TRUE), Entry(KB, 2048, 2, TRUE), Entry(<<"_">>, 5, 2, TRUE),
     Entry(<<"0">>, 0, 1, FALSE)}

Listings ==
    {[exists |-> FALSE, entries |-> << >>]}
        \cup {[exists |-> TRUE, entries |-> es] :
                es \in UNION {[1..n -> Entries] : n \in 0..MaxItems}}

\* A file system: the data directory with its four files (none when it is
\* absent), the files a and b given by path, the file a of a search
\* directory, the listed directory.
Disk(data_dir, ic, yc, is, ys, a, b, elsewhere, listing) ==
    [data_dir |-> data_dir, instagram_consolidated |-> ic, youtube_consolidated |-> yc,
     instagram_summary |-> is, youtube_summary |-> ys,
     files |-> (KA :> a) @@ (KB :> b), elsewhere |-> (KA :> elsewhere),
     listing |-> listing]

NoListing == [exists |-> FALSE, entries |-> << >>]

EmptyDisk ==
    Disk(FALSE, MissingFile, MissingFile, MissingFile, MissingFile,
         MissingFile, MissingFile, MissingFile, NoListing)

ConsolidatedDisks ==
    {Disk(d, ic, yc, MissingFile, MissingFile, MissingFile, MissingFile, MissingFile,
          NoListing) : d \in {TRUE}, ic \in InstagramFiles, yc \in YoutubeFiles}
        \cup {EmptyDisk}

SummaryDisks ==
    {Disk(d, MissingFile, MissingFile, is, ys, MissingFile, MissingFile, MissingFile,
          NoListing) : d \in {TRUE}, is \in SummaryFiles, ys \in SummaryFiles}
        \cup {EmptyDisk}

SearchDisks == {d \in ConsolidatedDisks : d.data_dir /\ d.instagram_consolidated.kind = "json"}

PlainDisks ==
    {Disk(FALSE, MissingFile, MissingFile, MissingFile, MissingFile, a, b, MissingFile,
          NoListing) : a \in PlainFiles, b \in PlainFiles}

SearchedDisks ==
    {Disk(FALSE, MissingFile, MissingFile, MissingFile, MissingFile, a, MissingFile, e,
          NoListing) : a \in PlainFiles,
                       e \in {MissingFile, GarbageFile, JsonFile(JInt(2))}}

ListedDisks ==
    {Disk(FALSE, MissingFile, MissingFile, MissingFile, MissingFile, MissingFile,
          MissingFile, MissingFile, l) : l \in Listings}

\* The calls made of the operations, one set for each.
KeywordSearchCalls ==
    [op : {"keyword_search"}, data : Docs, keywords : KeywordArgs, case_sensitive : BOOLEAN]

FilterJsonCalls == [op : {"filter_json"}, data : Docs, filters : FilterArgs]

AggregateDataCalls ==
    [op : {"aggregate_data"}, data : Docs, field : FieldArgs, operation : OperationArgs]

ExtractHashtagsCalls == [op : {"extract_hashtags"}, data : Docs \cup HashtagDocs]

CompareFilesCalls ==
    [op : {"compare_files"}, disk : PlainDisks, file1 : PathArgs, file2 : {JStr(KA), JStr(KB)}]

GetConsolidatedDataCalls ==
    [op : {"get_consolidated_data"}, disk : ConsolidatedDisks, platform : PlatformArgs]

GetMediaSummaryCalls ==
    [op : {"get_media_summary"}, disk : SummaryDisks, platform : PlatformArgs]

SearchMediaContentCalls ==
    [op : {"search_media_content"}, disk : SearchDisks \cup {EmptyDisk},
     query : QueryArgs, platform : {JStr(S_all), JStr(S_instagram)}, limit : LimitArgs]

ReadJsonFileCalls == [op : {"read_json_file"}, disk : SearchedDisks, filename : PathArgs]

ListJsonFilesCalls ==
    [op : {"list_json_files"}, disk : ListedDisks, directory : {JStr(<<".">>), JNull}]

\* The parameters execute_tool is handed: for each tool its parameters
\* with usual, empty and missing values, and parameters that are no dict.
ToolParams ==
    {JDict(<< >>), JList(<< >>), JNull}
        \cup {JDict(<<<<S_data, d>>, <<S_keywords, k>>>>) :
                d \in {JDict(<<<<KA, JStr(KB)>>>>), JDict(<< >>), JStr(KA)},
                k \in {JList(<<JStr(KB)>>), JList(<< >>), JStr(KA)}}
        \cup {JDict(<<<<S_data, d>>, <<S_filters, f>>>>) :
                d \in {JList(<<JDict(<<<<KA, JInt(1)>>>>)>>), JList(<< >>)},
                f \in {JDict(<<<<KA, JInt(1)>>>>), JDict(<< >>)}}
        \cup {JDict(<<<<S_data, d>>, <<S_field, JStr(KA)>>, <<S_operation, o>>>>) :
                d \in {JDict(<<<<KA, JInt(1)>>>>), JInt(0)},
                o \in {JStr(S_sum), JStr(S_count)}}
        \cup {JDict(<<<<S_data, d>>>>) : d \in {JStr(<<"#", "a">>), JStr(<< >>), JBool(FALSE)}}
        \cup {JDict(<<<<S_platform, JStr(S_instagram)>>, <<S_query, q>>>>) :
                q \in {JStr(KA), JStr(<< >>)}}
        \cup {JDict(<<<<S_filename, f>>, <<S_file1, f>>, <<S_file2, JStr(KB)>>,
                      <<S_directory, JStr(<<".">>)>>>>) : f \in {JStr(KA), JStr(<< >>)}}

ToolDisk ==
    Disk(TRUE, JsonFile(JDict(<<<<S_posts, JList(<<Post(JStr(KA), JList(<< >>), JInt(1),
                                                         JInt(1))>>)>>>>)),
         MissingFile, JsonFile(JInt(1)), MissingFile, JsonFile(JInt(1)), JsonFile(JInt(2)),
         MissingFile, [exists |-> TRUE, entries |-> <<Entry(KA, 128, 1, TRUE)>>])

ExecuteToolCalls ==
    [op : {"execute_tool"}, disk : {ToolDisk}, tool : ToolNames \cup {"bogus"},
     params : ToolParams]

EngineCalls ==
    KeywordSearchCalls \cup FilterJsonCalls \cup AggregateDataCalls
        \cup ExtractHashtagsCalls \cup CompareFilesCalls \cup GetConsolidatedDataCalls
        \cup GetMediaSummaryCalls \cup SearchMediaContentCalls \cup ReadJsonFileCalls
        \cup ListJsonFilesCalls \cup ExecuteToolCalls

\* ---------------------------------------------- the operations as a machine

agentVars ==
    <<mode, pc, iteration, ai_attempt, iterations, tool_results, events,
      tool_name, parameters, max_retries, attempt, last_error, engine_calls,
      model_log, result>>

\* Operations that read no file are called on an empty file system.
EngineInit ==
    /\ mode = "engine"
    /\ pc = "call"
    /\ iteration = 0
    /\ ai_attempt = 0
    /\ iterations = << >>
    /\ tool_results = << >>
    /\ events = << >>
    /\ tool_name = None
    /\ parameters = EmptyDict
    /\ max_retries = DefaultMaxRetries
    /\ attempt = 0
    /\ last_error = None
    /\ engine_calls = 0
    /\ model_log = << >>
    /\ result = NoResult
    /\ request \in EngineCalls
    /\ file_system = IF "disk" \in DOMAIN request THEN request.disk ELSE EmptyDisk
    /\ reply = None
    /\ returned = 0
    /\ runs = << >>

\* A call of operation `op` returns `value`.
Returns(op, value) ==
    /\ mode = "engine"
    /\ request.op = op
    /\ returned < MaxCalls
    /\ reply' = value
    /\ returned' = returned + 1
    /\ UNCHANGED <<agentVars, file_system, request, runs>>

KeywordSearch ==
    Returns("keyword_search",
            keyword_search(request.data, request.keywords, request.case_sensitive))

FilterJson == Returns("filter_json", filter_json(request.data, request.filters))

AggregateData ==
    Returns("aggregate_data",
            aggregate_data(request.data, request.field, request.operation))

ExtractHashtags == Returns("extract_hashtags", extract_hashtags(request.data))

CompareFiles ==
    \E reversed \in BOOLEAN :
        Returns("compare_files",
                compare_files(file_system, request.file1, request.file2, reversed))

GetConsolidatedData ==
    Returns("get_consolidated_data", get_consolidated_data(file_system, request.platform))

GetMediaSummary ==
    Returns("get_media_summary", get_media_summary(file_system, request.platform))

SearchMediaContent ==
    Returns("search_media_content",
            search_media_content(file_system, request.query, request.platform,
                                 request.limit))

ReadJsonFile == Returns("read_json_file", read_json_file(file_system, request.filename))

ListJsonFiles == Returns("list_json_files", list_json_files(file_system, request.directory))

\* execute_tool with its default max_retries: the passes of its loop read
\* the same files and give the same value, which the last pass returns.
ExecuteTool ==
    \E reversed \in BOOLEAN :
        Returns("execute_tool",
                Dispatch(file_system, request.tool, request.params, reversed))

EngineNext ==
    \/ KeywordSearch
    \/ FilterJson
    \/ AggregateData
    \/ ExtractHashtags
    \/ CompareFiles
    \/ GetConsolidatedData
    \/ GetMediaSummary
    \/ SearchMediaContent
    \/ ReadJsonFile
    \/ ListJsonFiles
    \/ ExecuteTool

EngineSpec == EngineInit /\ [][EngineNext]_vars

\* ------------------------------------------------------------ vocabulary

\* Operation `op` of AnalysisTools was called directly and has returned.
Called(op) == mode = "engine" /\ returned > 0 /\ request.op = op

EngineOps ==
    {"keyword_search", "filter_json", "aggregate_data", "extract_hashtags",
     "compare_files", "get_consolidated_data", "get_media_summary",
     "search_media_content", "read_json_file", "list_json_files"}

IsError(r) == "error" \in DOMAIN r

IsSuccess(r) == "success" \in DOMAIN r /\ r.success = TRUE

\* C11: whatever the document, the parameters and the files, every
\* operation of the Data Query Engine returns a mapping that holds either
\* success = true with a payload or an error, never both, never neither.
C11_OperationsReturnMappings ==
    \A op \in EngineOps :
        Called(op) =>
            /\ IsError(reply) # IsSuccess(reply)
            /\ IsSuccess(reply) => Cardinality(DOMAIN reply) > 1

\* C11 witness: filter_json returned the error of an exception it caught.
C11_Witness ==
    /\ Called("filter_json")
    /\ IsError(reply)
    /\ request.filters.t = "dict"

\* The subtrees of a document in pre-order, the document first.
RECURSIVE Subtrees(_)
Subtrees(obj) ==
    IF obj.t \in {"dict", "list"}
    THEN <<obj>> \o Flatten([i \in 1..Len(obj.items) |-> Subtrees(obj.items[i])])
    ELSE <<obj>>

IsMapping(v) == v.t = "dict"

MappingSubtrees(D) == SelectSeq(Subtrees(D), IsMapping)

\* How often x occurs in a sequence.
Occurrences(seq, x) == Cardinality({i \in 1..Len(seq) : seq[i] = x})

\* Two sequences hold the same members, each as often.
SameMembers(s1, s2) ==
    /\ Len(s1) = Len(s2)
    /\ \A i \in 1..Len(s1) : Occurrences(s1, s1[i]) = Occurrences(s2, s1[i])

OrderingOps == 1..4

\* A value satisfies operator FilterOps[k] with its operand; a value that
\* cannot be ordered against the operand does not satisfy an ordering
\* operator.
SatisfiesOp(k, v, operand) ==
    CASE k = 1 -> PyOrder(v, operand) = "gt"
      [] k = 2 -> PyOrder(v, operand) = "lt"
      [] k = 3 -> PyOrder(v, operand) \in {"gt", "eq"}
      [] k = 4 -> PyOrder(v, operand) \in {"lt", "eq"}
      [] k = 5 -> PyEq(v, operand)
      [] k = 6 -> ~PyEq(v, operand)
      [] k = 7 -> \E i \in 1..Len(operand.items) : PyEq(v, operand.items[i])
      [] OTHER -> IsSubstr(operand.s, PyStr(v))

\* A value satisfies an entry of the filters: a literal by equality, an
\* operator mapping by all of its listed operators.
SatisfiesEntry(v, entry) ==
    IF entry.t = "dict"
    THEN \A k \in 1..Len(FilterOps) :
            HasKey(entry, FilterOps[k]) => SatisfiesOp(k, v, Lookup(entry, FilterOps[k]))
    ELSE PyEq(v, entry)

\* A mapping node has every key of the filters and satisfies every entry.
Satisfies(node, F) ==
    \A i \in 1..Len(F.keys) :
        /\ HasKey(node, F.keys[i])
        /\ SatisfiesEntry(Lookup(node, F.keys[i]), F.items[i])

\* The mapping subtrees of D that satisfy F.
Matching(D, F) ==
    LET Test(node) == Satisfies(node, F)
    IN  SelectSeq(MappingSubtrees(D), Test)

\* Filters the operation is documented for: a mapping whose $in operands
\* are sequences and whose $contains operands are strings.
WellFormedFilters(F) ==
    /\ F.t = "dict"
    /\ \A i \in 1..Len(F.items) :
          F.items[i].t = "dict" =>
              /\ HasKey(F.items[i], FilterOps[7]) => Lookup(F.items[i], FilterOps[7]).t = "list"
              /\ HasKey(F.items[i], FilterOps[8]) => Lookup(F.items[i], FilterOps[8]).t = "str"

\* F has only equality clauses.
EqualityOnly(F) == F.t = "dict" /\ \A i \in 1..Len(F.items) : F.items[i].t # "dict"

\* Some mapping node of D binds a key of F, filtered by an ordering
\* operator, to a value that cannot be ordered against the operand.
Mistyped(D, F) ==
    /\ F.t = "dict"
    /\ \E j \in 1..Len(MappingSubtrees(D)), i \in 1..Len(F.keys), k \in OrderingOps :
          LET node == MappingSubtrees(D)[j]
          IN  /\ HasKey(node, F.keys[i])
              /\ F.items[i].t = "dict"
              /\ HasKey(F.items[i], FilterOps[k])
              /\ PyOrder(Lookup(node, F.keys[i]), Lookup(F.items[i], FilterOps[k])) = "raise"

\* C12: filter_json(D, F) succeeds and its results are exactly the mapping
\* subtrees of D, at any depth, that have every key of F and satisfy every
\* entry of F (literal by equality, operator mapping by all its operators).
C12_ExactlyTheMatchingSubtrees ==
    Called("filter_json") /\ WellFormedFilters(request.filters) =>
        /\ IsSuccess(reply)
        /\ SameMembers(reply.results, Matching(request.data, request.filters))

\* The results are the matching subtrees for filters of equality clauses
\* only, and for every filter on documents without a mistyped field.
MatchesWhenOrdered ==
    Called("filter_json") /\ WellFormedFilters(request.filters)
        /\ (EqualityOnly(request.filters) \/ ~Mistyped(request.data, request.filters)) =>
        /\ IsSuccess(reply)
        /\ SameMembers(reply.results, Matching(request.data, request.filters))

\* C13: when a mapping node of D binds a key filtered by an ordering
\* operator to a value that cannot be ordered against the operand,
\* filter_json still succeeds, and returns the nodes that match.
C13_MistypedFieldIsNoMatch ==
    Called("filter_json") /\ WellFormedFilters(request.filters)
        /\ Mistyped(request.data, request.filters) =>
        /\ IsSuccess(reply)
        /\ SameMembers(reply.results, Matching(request.data, request.filters))

\* The values bound to `field` anywhere in D: of every mapping subtree the
\* values of its entries keyed by `field`.
BoundTo(D, field) ==
    LET nodes == MappingSubtrees(D)
    IN  Flatten([j \in 1..Len(nodes) |->
            Flatten([i \in 1..Len(nodes[j].keys) |->
                IF field.t = "str" /\ nodes[j].keys[i] = field.s
                THEN <<nodes[j].items[i]>> ELSE << >>])])

\* A JSON number.
IsNumeric(v) == v.t \in {"int", "float"}

AllNumeric(values) == \A i \in 1..Len(values) : IsNumeric(values[i])

RECURSIVE DirectSum(_)
DirectSum(values) == IF values = << >> THEN 0 ELSE Head(values).n + DirectSum(Tail(values))

AggregateCalled(operation) ==
    /\ Called("aggregate_data")
    /\ request.field.t = "str"
    /\ request.operation = JStr(operation)

\* sum gives the direct sum and the count of the values, avg that sum
\* divided by that count.
SumAndAvgOf(values) ==
    /\ AggregateCalled(S_sum) =>
          /\ IsSuccess(reply)
          /\ IsNumeric(reply.result)
          /\ reply.result.n = DirectSum(values)
          /\ reply.numeric_values_count = Len(values)
    /\ AggregateCalled(S_avg) =>
          /\ IsSuccess(reply)
          /\ reply.result = [num |-> DirectSum(values), den |-> Len(values)]
          /\ reply.numeric_values_count = Len(values)

\* C14 as stated: for every document in which all values bound to `field`
\* are numeric, sum returns their direct sum with numeric_values_count
\* their number, and avg that sum divided by that count.
C14_SumAndAvgOfNumericField ==
    LET values == BoundTo(request.data, request.field)
    IN  (AggregateCalled(S_sum) \/ AggregateCalled(S_avg)) /\ AllNumeric(values) =>
            SumAndAvgOf(values)

\* C14 amended: for every document that binds `field` at least once and
\* only to numbers, sum returns their direct sum with numeric_values_count
\* their number, and avg that sum divided by that count.
C14_SumAndAvgOfBoundNumericField ==
    LET values == BoundTo(request.data, request.field)
    IN  (AggregateCalled(S_sum) \/ AggregateCalled(S_avg))
            /\ AllNumeric(values) /\ values # << >> =>
            SumAndAvgOf(values)

\* C14 witness: the sum of two numbers bound at different depths.
C14_Witness ==
    LET values == BoundTo(request.data, request.field)
    IN  /\ AggregateCalled(S_sum)
        /\ request.data.t = "dict"
        /\ Len(values) = 2
        /\ AllNumeric(values)
        /\ values[1] # values[2]
        /\ IsSuccess(reply)
        /\ reply.result.n = 3

\* C15: for every document, aggregate_data with operation "count" succeeds
\* and its result is the number of mapping entries keyed by `field`
\* anywhere in the document, whatever the types of their values.
C15_CountOfAnyValues ==
    AggregateCalled(S_count) =>
        /\ IsSuccess(reply)
        /\ reply.result = Len(BoundTo(request.data, request.field))

\* The count is that number when every value bound to `field` is a
\* scalar.
CountOfScalars ==
    LET values == BoundTo(request.data, request.field)
    IN  AggregateCalled(S_count) /\ (\A i \in 1..Len(values) : Hashable(values[i])) =>
            /\ IsSuccess(reply)
            /\ reply.result = Len(values)

\* The places of a document where a keyword can occur: every mapping key
\* and every string leaf (a string value of a mapping, a string element of
\* a sequence, the document itself), each with its path.
Location(path, found_in, text) == [path |-> path, found_in |-> found_in, text |-> text]

RECURSIVE Locations(_, _)
Locations(obj, path) ==
    CASE obj.t = "dict" ->
            Flatten([i \in 1..Len(obj.keys) |->
                LET here == path \o <<".">> \o obj.keys[i]
                IN  <<Location(here, "key", obj.keys[i])>>
                        \o (IF obj.items[i].t = "str"
                            THEN <<Location(here, "value", obj.items[i].s)>>
                            ELSE Locations(obj.items[i], here))])
      [] obj.t = "list" ->
            Flatten([i \in 1..Len(obj.items) |->
                Locations(obj.items[i], path \o <<"[">> \o Digits(i - 1) \o <<"]">>)])
      [] obj.t = "str" -> <<Location(path, "value", obj.s)>>
      [] OTHER -> << >>

\* A keyword occurs in a text: it is a substring of it, letters compared
\* without their case unless the call is case sensitive.
Occurs(keyword, text, case_sensitive) ==
    \E i \in 0..(Len(text) - Len(keyword)) :
        \A j \in 1..Len(keyword) :
            IF case_sensitive THEN text[i + j] = keyword[j]
            ELSE LowerChar(text[i + j]) = LowerChar(keyword[j])

\* The keywords of a call: a list of strings, or one string.
KeywordSet(keywords) ==
    IF keywords.t = "str" THEN {keywords.s}
    ELSE {keywords.items[i].s : i \in 1..Len(keywords.items)}

KeywordSearchCalled ==
    /\ Called("keyword_search")
    /\ \/ request.keywords.t = "str"
       \/ /\ request.keywords.t = "list"
          /\ \A i \in 1..Len(request.keywords.items) : request.keywords.items[i].t = "str"

\* C16: keyword_search(D, K) succeeds; for every mapping key and every
\* string leaf of D and every keyword of K that occurs in it (under the
\* case mode of the call) there is a match record with that path, keyword
\* and kind; when no keyword occurs in any key or string of D there are no
\* matches; total_matches is the number of match records.
C16_MatchForEveryOccurrence ==
    KeywordSearchCalled =>
        LET locs == Locations(request.data, Root)
            K == KeywordSet(request.keywords)
            cs == request.case_sensitive
        IN  /\ IsSuccess(reply)
            /\ \A i \in 1..Len(locs), k \in K :
                  Occurs(k, locs[i].text, cs) =>
                      \E m \in 1..Len(reply.matches) :
                          /\ reply.matches[m].path = locs[i].path
                          /\ reply.matches[m].keyword = k
                          /\ reply.matches[m].found_in = locs[i].found_in
            /\ (\A i \in 1..Len(locs), k \in K : ~Occurs(k, locs[i].text, cs)) =>
                  reply.matches = << >>
            /\ reply.total_matches = Len(reply.matches)

\* C16 witness: a search without case for "A" and "b" that matched a key
\* and a string element of a nested sequence.
C16_Witness ==
    /\ KeywordSearchCalled
    /\ ~request.case_sensitive
    /\ KeywordSet(request.keywords) = {<<"A">>, KB}
    /\ IsSuccess(reply)
    /\ \E m \in 1..Len(reply.matches) :
          /\ reply.matches[m].found_in = "key"
          /\ reply.matches[m].keyword = <<"A">>
    /\ \E m \in 1..Len(reply.matches) :
          /\ reply.matches[m].found_in = "value"
          /\ reply.matches[m].path = Root \o <<".", "a", "[", "0", "]">>
    /\ reply.total_matches >= 2

\* A search that found nothing although its keywords are not empty.
NoOccurrence ==
    /\ KeywordSearchCalled
    /\ KeywordSet(request.keywords) # {}
    /\ request.data.t = "dict"
    /\ request.data.keys # << >>
    /\ IsSuccess(reply)
    /\ reply.matches = << >>

NoMatches(r) == IsSuccess(r) /\ r.total_matches = 0 /\ r.matches = << >>

\* keyword_search called directly with an empty keywords list.
EmptyKeywordsDirect == Called("keyword_search") /\ request.keywords = JList(<< >>)

\* The keyword_search tool dispatched by execute_tool with a document and
\* an empty keywords list.
EmptyKeywordsDispatched ==
    /\ mode = "engine"
    /\ returned > 0
    /\ request.op = "execute_tool"
    /\ request.tool = "keyword_search"
    /\ request.params.t = "dict"
    /\ PyTruthy(DictGet(request.params, S_data, JNull))
    /\ DictGet(request.params, S_keywords, JNull) = JList(<< >>)

\* C17: with an empty keywords list the keyword_search tool returns a
\* successful result with no matches, called directly and dispatched
\* through execute_tool alike.
C17_EmptyKeywordsNoMatches ==
    EmptyKeywordsDirect \/ EmptyKeywordsDispatched => NoMatches(reply)

\* The direct call with an empty keywords list succeeds with no matches.
EmptyKeywordsDirectNoMatches == EmptyKeywordsDirect => NoMatches(reply)

\* The hashtags of a document in the order of the tree walk.
TagsInWalk(D) ==
    LET nodes == Subtrees(D)
    IN  Flatten([i \in 1..Len(nodes) |->
            IF nodes[i].t = "str" THEN FindHashtags(nodes[i].s) ELSE << >>])

\* Where a hashtag first occurs in the walk.
FirstOccurrence(tags, tag) == MinOf({i \in 1..Len(tags) : tags[i] = tag})

\* Entry x of a frequency table comes before entry y: it is more frequent,
\* or as frequent and first seen earlier.
RanksBefore(tags, x, y) ==
    \/ x.count > y.count
    \/ x.count = y.count /\ FirstOccurrence(tags, x.tag) < FirstOccurrence(tags, y.tag)

RECURSIVE SumOfCounts(_)
SumOfCounts(table) ==
    IF table = << >> THEN 0 ELSE Head(table).count + SumOfCounts(Tail(table))

\* The result of extract_hashtags is consistent with the hashtags of D.
HashtagsConsistent(D, r) ==
    LET tags == TagsInWalk(D)
        all == r.all_hashtags
        top == r.top_10
    IN  /\ IsSuccess(r)
        /\ {all[i].tag : i \in 1..Len(all)} = {tags[i] : i \in 1..Len(tags)}
        /\ \A i \in 1..Len(all) : all[i].count = Occurrences(tags, all[i].tag)
        /\ \A i, j \in 1..Len(all) : all[i].tag = all[j].tag => i = j
        /\ r.unique_hashtags = Len(all)
        /\ r.total_hashtags = SumOfCounts(all)
        /\ Len(top) = (IF r.unique_hashtags < 10 THEN r.unique_hashtags ELSE 10)
        /\ \A i \in 1..Len(top) : \E j \in 1..Len(all) : all[j] = top[i]
        /\ \A i \in 1..(Len(top) - 1) : RanksBefore(tags, top[i], top[i + 1])
        /\ \A j \in 1..Len(all) :
              (\A i \in 1..Len(top) : top[i] # all[j]) =>
                  RanksBefore(tags, top[Len(top)], all[j])

\* C18: extract_hashtags is idempotent and deterministic, a second call
\* on the same document returns the result of the first, top_10 included;
\* top_10 has min(10, unique_hashtags) entries, the most frequent first
\* and ties in the order of first occurrence in the tree walk;
\* total_hashtags is the sum of the frequencies of all_hashtags and
\* unique_hashtags the number of its keys.
C18_HashtagsIdempotentAndRanked ==
    /\ [](Called("extract_hashtags") => HashtagsConsistent(request.data, reply))
    /\ [][Called("extract_hashtags") /\ returned' > returned => reply' = reply]_vars

\* C18 witness: the second call on a document of twelve hashtags, three of
\* them repeated, two of these as often as each other.
C18_Witness ==
    /\ Called("extract_hashtags")
    /\ returned = 2
    /\ reply.unique_hashtags = 12
    /\ reply.total_hashtags = 16
    /\ Len(reply.top_10) = 10
    /\ reply.top_10[1] = [tag |-> <<"9">>, count |-> 3]
    /\ reply.top_10[2] = [tag |-> <<"0">>, count |-> 2]
    /\ reply.top_10[3] = [tag |-> <<"8">>, count |-> 2]

\* Two documents are structurally equal: same types, same key sets, same
\* list lengths, equal leaves.
RECURSIVE StructurallyEqual(_, _)
StructurallyEqual(d1, d2) ==
    /\ d1.t = d2.t
    /\ CASE d1.t = "dict" ->
              /\ {d1.keys[i] : i \in 1..Len(d1.keys)} = {d2.keys[i] : i \in 1..Len(d2.keys)}
              /\ \A i \in 1..Len(d1.keys) :
                    StructurallyEqual(d1.items[i], Lookup(d2, d1.keys[i]))
         [] d1.t = "list" ->
              /\ Len(d1.items) = Len(d2.items)
              /\ \A i \in 1..Len(d1.items) : StructurallyEqual(d1.items[i], d2.items[i])
         [] OTHER -> d1 = d2

\* compare_files was called on two paths of readable JSON files.
ComparedReadable ==
    /\ Called("compare_files")
    /\ request.file1.t = "str"
    /\ request.file2.t = "str"
    /\ FileAt(file_system, request.file1).kind = "json"
    /\ FileAt(file_system, request.file2).kind = "json"

\* C19: comparing a readable JSON file with itself gives success with
\* differences_count 0 and no differences; for two readable files
\* differences_count is 0 exactly when their documents are structurally
\* equal.
C19_NoDifferencesIffStructurallyEqual ==
    ComparedReadable =>
        LET d1 == FileAt(file_system, request.file1).data
            d2 == FileAt(file_system, request.file2).data
        IN  /\ IsSuccess(reply)
            /\ reply.differences_count = 0 <=> StructurallyEqual(d1, d2)
            /\ reply.differences_count = 0 => reply.differences = << >>
            /\ request.file1 = request.file2 =>
                  reply.differences_count = 0 /\ reply.differences = << >>

\* C19 witness: a file holding a mapping with a nested sequence, compared
\* with itself.
C19_Witness ==
    /\ ComparedReadable
    /\ request.file1 = request.file2
    /\ FileAt(file_system, request.file1).data.t = "dict"
    /\ \E i \in 1..Len(FileAt(file_system, request.file1).data.items) :
          FileAt(file_system, request.file1).data.items[i].t = "list"
    /\ reply.differences_count = 0

\* Two files whose mappings list the same entries in another order.
ComparedReordered ==
    /\ ComparedReadable
    /\ FileAt(file_system, request.file1).data # FileAt(file_system, request.file2).data
    /\ reply.differences_count = 0

\* Two files that differ only below the top of their documents.
ComparedDifferingInDepth ==
    /\ ComparedReadable
    /\ reply.differences_count = 1
    /\ Len(reply.differences[1].path) > Len(Root) + 2

\* The platforms a call of get_consolidated_data requests.
Requested(platform) ==
    IF platform = JStr(S_all) THEN {S_instagram, S_youtube}
    ELSE IF platform \in {JStr(S_instagram), JStr(S_youtube)} THEN {platform.s}
    ELSE {}

\* The consolidated file that backs a platform.
Backing(fs, p) == IF p = S_instagram THEN fs.instagram_consolidated ELSE fs.youtube_consolidated

\* The requested platforms whose backing file exists.
Backed(fs, platform) == {p \in Requested(platform) : fs.data_dir /\ Exists(Backing(fs, p))}

\* The result holds exactly the platforms of `backed`, each with the
\* document of its file, and is an error exactly when there is none.
ConsolidatedResult(fs, backed, r) ==
    /\ IsError(r) <=> backed = {}
    /\ ~IsError(r) =>
          /\ IsSuccess(r)
          /\ {r.data.keys[i] : i \in 1..Len(r.data.keys)} = backed
          /\ \A i \in 1..Len(r.data.keys) : r.data.items[i] = Backing(fs, r.data.keys[i]).data

\* C20: the data of get_consolidated_data holds exactly the requested
\* platforms whose backing file exists (both for "all" when both exist,
\* the other one when one is missing, the one asked for when a single
\* platform is requested), and the result is an error if and only if the
\* data directory is missing or no backing file exists for any requested
\* platform.
C20_ExactlyTheBackedPlatforms ==
    Called("get_consolidated_data") =>
        ConsolidatedResult(file_system, Backed(file_system, request.platform), reply)

\* The same when every backing file that exists holds a JSON document.
BackedPlatformsWhenReadable ==
    Called("get_consolidated_data")
        /\ (\A p \in Backed(file_system, request.platform) :
                ~LoadRaises(Backing(file_system, p))) =>
        ConsolidatedResult(file_system, Backed(file_system, request.platform), reply)

\* A partial result: "all" was requested, one file is missing.
PartialResult ==
    /\ Called("get_consolidated_data")
    /\ request.platform = JStr(S_all)
    /\ Backed(file_system, request.platform) = {S_youtube}
    /\ IsSuccess(reply)

\* The records of a consolidated file: the sequence its document binds to
\* `key`, none when the platform is not requested or its file is missing.
RecordsOf(fs, platform, p, key) ==
    IF p \notin Backed(fs, platform) THEN << >>
    ELSE LET doc == Backing(fs, p).data
         IN  IF doc.t = "dict" /\ HasKey(doc, key) /\ Lookup(doc, key).t = "list"
             THEN Lookup(doc, key).items ELSE << >>

IsText(v) == v.t = "str"

IsTextList(v) == v.t = "list" /\ \A i \in 1..Len(v.items) : v.items[i].t = "str"

IsCount(v) == v.t = "int"

\* The searchable text of a record, its score, and whether it is well
\* formed: texts are strings, tag lists are lists of strings, counts are
\* integers.
Candidate(p, text, tags, likes, other, well_formed) ==
    [platform |-> p, text |-> text, tags |-> tags, likes |-> likes, other |-> other,
     well_formed |-> well_formed]

PostCandidate(post) ==
    LET caption == DictGet(post, S_caption, JStr(<< >>))
        hashtags == DictGet(post, S_hashtags, JList(<< >>))
        likes == DictGet(post, S_likes, JInt(0))
        comments == DictGet(post, S_comments, JInt(0))
    IN  Candidate(S_instagram, caption, hashtags, likes, comments,
                  IsText(caption) /\ IsTextList(hashtags) /\ IsCount(likes) /\ IsCount(comments))

VideoCandidate(video) ==
    LET title == DictGet(video, S_title, JStr(<< >>))
        tags == DictGet(video, S_tags, JList(<< >>))
        likes == DictGet(video, S_likes, JInt(0))
        views == DictGet(video, S_views, JInt(0))
    IN  Candidate(S_youtube, title, tags, likes, views,
                  /\ IsText(title) /\ IsTextList(tags) /\ IsCount(likes) /\ IsCount(views)
                  /\ IsText(DictGet(video, S_description, JStr(<< >>))))

\* All records of the requested platforms in collection order: the
\* Instagram posts in file order, then the YouTube videos in file order.
Candidates(fs, platform) ==
    LET posts == RecordsOf(fs, platform, S_instagram, S_posts)
        videos == RecordsOf(fs, platform, S_youtube, S_videos)
    IN  [i \in 1..Len(posts) |-> PostCandidate(posts[i])]
            \o [i \in 1..Len(videos) |-> VideoCandidate(videos[i])]

\* The query occurs, without regard to case, in the text of the record or
\* in its tags joined by spaces.
MatchesQuery(c, query) ==
    \/ Occurs(query.s, c.text.s, FALSE)
    \/ Occurs(query.s,
              Join([i \in 1..Len(c.tags.items) |-> c.tags.items[i].s], <<" ">>), FALSE)

Score(c) == c.likes.n + c.other.n

\* What a returned record shows of the record it was made from.
Shown(rec) ==
    IF rec.platform = S_instagram
    THEN [platform |-> S_instagram, text |-> JStr(rec.caption), likes |-> rec.likes,
          other |-> rec.comments]
    ELSE [platform |-> S_youtube, text |-> JStr(rec.title), likes |-> rec.likes,
          other |-> rec.views]

\* The matches in ranking order: the k-th is the match with k - 1 matches
\* ahead of it, a match being ahead of another when its score is higher,
\* or equal and it comes earlier in the collection.
Ranking(matches) ==
    LET Ahead(i, j) ==
            \/ Score(matches[i]) > Score(matches[j])
            \/ Score(matches[i]) = Score(matches[j]) /\ i < j
        Rank(i) == 1 + Cardinality({j \in 1..Len(matches) : Ahead(j, i)})
    IN  [k \in 1..Len(matches) |-> matches[CHOOSE i \in 1..Len(matches) : Rank(i) = k]]

\* search_media_content was called with a string query and a limit that
\* is a number of records, on files that hold mappings whose records are
\* well formed.
SearchCalled ==
    /\ Called("search_media_content")
    /\ request.query.t = "str"
    /\ request.limit.t = "int"
    /\ request.limit.n >= 0
    /\ Backed(file_system, request.platform) # {}
    /\ \A p \in Backed(file_system, request.platform) :
          /\ Backing(file_system, p).kind = "json"
          /\ Backing(file_system, p).data.t = "dict"
    /\ \A i \in 1..Len(Candidates(file_system, request.platform)) :
          Candidates(file_system, request.platform)[i].well_formed

\* C21: search_media_content returns the matching records ranked by
\* likes + views + comments in descending order, records of equal score
\* in collection order (Instagram matches in file order, then YouTube
\* matches in file order), cut to at most `limit` records; total_results
\* is the length of the returned list.
C21_RankedAndLimited ==
    SearchCalled =>
        LET IsMatch(c) == MatchesQuery(c, request.query)
            ranked == Ranking(SelectSeq(Candidates(file_system, request.platform), IsMatch))
            n == IF request.limit.n < Len(ranked) THEN request.limit.n ELSE Len(ranked)
        IN  /\ IsSuccess(reply)
            /\ Len(reply.results) = n
            /\ \A k \in 1..n :
                  Shown(reply.results[k])
                      = [platform |-> ranked[k].platform, text |-> ranked[k].text,
                         likes |-> ranked[k].likes, other |-> ranked[k].other]
            /\ reply.total_results = Len(reply.results)

\* C21 witness: a search of both platforms that returned a video between
\* two posts of equal score, which kept their file order.
C21_Witness ==
    /\ SearchCalled
    /\ IsSuccess(reply)
    /\ reply.total_results = 3
    /\ reply.results[1].platform = S_instagram
    /\ reply.results[2].platform = S_youtube
    /\ reply.results[3].platform = S_instagram
    /\ reply.results[1].likes.n = 5

\* A search cut by its limit.
SearchCut ==
    /\ SearchCalled
    /\ request.limit.n = 1
    /\ Len(Candidates(file_system, request.platform)) > 2
    /\ IsSuccess(reply)
    /\ reply.total_results = 1

\* The request for a tool that the loop parsed from the k-th model
\* invocation and dispatched to execute_tool, if it did.
ParsedAt(k) ==
    IF mode = "run" THEN RunParsed[model_log[k].text] ELSE StreamParsed[model_log[k].text]

DispatchedAt(k) ==
    /\ ~model_log[k].raised
    /\ model_log[k].text # << >> \/ mode = "run"
    /\ IsDict(ParsedAt(k))
    /\ mode = "stream" => Truthy(ParsedAt(k))
    /\ ParsedAt(k).action = "use_tool"
    /\ mode = "stream" => ~NoToolName(ParsedAt(k).tool)

\* The tools dispatched by the model invocations before the k-th, in order.
DispatchedBefore(k) ==
    LET calls == SelectSeq([m \in 1..(k - 1) |-> m], DispatchedAt)
    IN  [n \in 1..Len(calls) |-> ParsedAt(calls[n]).tool]

\* The tool and the result of every record so far, in order.
Records ==
    IF mode = "run"
    THEN [k \in 1..Len(iterations) |->
            [tool |-> iterations[k].tool, result |-> iterations[k].result]]
    ELSE tool_results

\* The k-th model invocation began after every earlier iteration had
\* ended: its prompt shows, in order, the tool of every request dispatched
\* before it, with the result recorded for it.
PromptShowsEarlierIterations(k) ==
    LET call == model_log[k]
        tools == DispatchedBefore(k)
    IN  /\ Len(call.prompt) = Len(tools)
        /\ Len(call.prompt) <= Len(Records)
        /\ \A n \in 1..Len(tools) :
              /\ call.prompt[n].tool = tools[n]
              /\ call.prompt[n].tool = Records[n].tool
              /\ call.prompt[n].result = Records[n].result
        /\ \A m \in 1..(k - 1) :
              /\ model_log[m].iteration <= call.iteration
              /\ DispatchedAt(m) => model_log[m].iteration < call.iteration

StreamPromptedTwice ==
    /\ mode = "stream"
    /\ Len(model_log) = 4
    /\ LastCall.iteration = 2
    /\ Len(LastCall.prompt) = 2

\* The iteration log of AIAgent.run is only ever appended to, one record
\* at a time, and never grows beyond max_iterations.
LogAppendOnly ==
    /\ [](mode = "run" => Len(iterations) <= max_iterations)
    /\ [][mode = "run" =>
            \/ iterations' = iterations
            \/ /\ Len(iterations') = Len(iterations) + 1
               /\ SubSeq(iterations', 1, Len(iterations)) = iterations]_vars

\* At the head of iteration k of AIAgent.run, k iterations have completed
\* without ending the run.
CompletedIterations(k) ==
    /\ mode = "run"
    /\ InLoop
    /\ pc = "think"
    /\ iteration = k

\* C23: in AIAgent.run the iteration log is append-only and every
\* iteration that does not end the run appends exactly one Iteration
\* Record: after k such iterations the log has k records, the j-th record
\* has iteration = j, and the log is never longer than max_iterations,
\* whatever the parsed response was.
C23_OneRecordPerIteration ==
    /\ LogAppendOnly
    /\ [](\A k \in 0..max_iterations : CompletedIterations(k) => Len(iterations) = k)
    /\ [](mode = "run" => \A j \in 1..Len(iterations) : iterations[j].iteration = j)

\* The records are numbered by the iteration that wrote them, in
\* increasing order, and there is at most one for each completed iteration.
RecordsNumberedByIteration ==
    mode = "run" =>
        /\ Len(iterations) <= iteration + (IF pc = "think" THEN 0 ELSE 1)
        /\ \A j \in 1..Len(iterations) :
              /\ iterations[j].iteration >= j
              /\ iterations[j].iteration <= max_iterations
              /\ j > 1 => iterations[j - 1].iteration < iterations[j].iteration

\* An iteration of AIAgent.run whose response was a mapping with an action
\* other than "answer" and "use_tool" ended without a record.
IterationWithoutRecord ==
    /\ CompletedIterations(1)
    /\ LastCall.text = R_OTHER
    /\ iterations = << >>

\* The text is valid JSON for a value that is no mapping: a number, a list.
ValidJsonNoMapping(text) == JsonLoads(text).type \in {"num", "list"}

\* C25: a model response that is valid JSON but no action mapping (a bare
\* number, a string, null, a list) is handled as a parse failure: the run
\* ends in Answered with the raw text as final_answer, never in Failed, in
\* AIAgent.run and in stream_agent_response.
C25_NonMappingIsAnswer ==
    (Responded /\ ValidJsonNoMapping(LastCall.text)) =>
        /\ Terminal
        /\ result.outcome = "Answered"
        /\ result.final_answer = LastCall.text

\* The same for the streaming loop alone.
StreamNonMappingIsAnswer ==
    mode = "stream" => C25_NonMappingIsAnswer

\* stream_agent_response answered with the bare number the model wrote.
StreamAnsweredNumber ==
    /\ mode = "stream"
    /\ Responded
    /\ LastCall.text = R_NUM
    /\ result.outcome = "Answered"

\* AIAgent.run failed on the bare number the model wrote.
RunFailedOnNumber ==
    /\ mode = "run"
    /\ Responded
    /\ LastCall.text = R_NUM
    /\ result.outcome = "Failed"

\* The latest response of the streaming loop, given at iteration i, is a
\* use_tool action.
StreamToolRequestAt(i) ==
    /\ mode = "stream"
    /\ Responded
    /\ LastCall.iteration = i
    /\ RequestsTool(LastCall.text)

\* The tool requested at iteration i was executed and its tool_result
\* emitted, and the loop stands at the head of iteration i + 1, the model
\* not yet invoked again.
ToolExecutedThenThinking(i) ==
    /\ StreamToolRequestAt(i)
    /\ pc = "think"
    /\ iteration = i + 1
    /\ tool_results # << >>
    /\ LastRecord.tool = Said(LastCall.text).tool
    /\ events # << >>
    /\ events[Len(events)] = ToolResultEvent(LastRecord.tool, LastRecord.result)

\* C26: in stream_agent_response, whenever the response at iteration i is
\* a use_tool action and i + 1 < max_iterations, the named tool is executed
\* and a tool_result emitted before the next model invocation, for every
\* textual form of the action, an unfenced object with a nested parameters
\* mapping included.
C26_StreamToolThenThinking ==
    \A i \in 0..(max_iterations - 2) :
        StreamToolRequestAt(i) ~> ToolExecutedThenThinking(i)

\* The same for the requests the streaming loop extracts with a tool name.
StreamExtractedRequestAt(i) ==
    /\ StreamToolRequestAt(i)
    /\ IsDict(LoopParsed)
    /\ LoopParsed.action = "use_tool"
    /\ ~NoToolName(LoopParsed.tool)

ExtractedToolThenThinking ==
    \A i \in 0..(max_iterations - 2) :
        StreamExtractedRequestAt(i) ~> ToolExecutedThenThinking(i)

\* stream_agent_response answered with the text of an unfenced request
\* whose parameters are a nested mapping, and ran no tool.
StreamAnsweredNestedRequest ==
    /\ StreamToolRequestAt(0)
    /\ LastCall.text = R_TOOL_NESTED
    /\ Terminal
    /\ result.outcome = "Answered"
    /\ result.final_answer = R_TOOL_NESTED
    /\ tool_results = << >>

\* The fenced form of the same request was executed.
StreamExecutedFencedRequest ==
    /\ ToolExecutedThenThinking(1)
    /\ LastCall.text = R_TOOL_JSON

\* filter_json returned results for filters that are a mapping.
FilterReturned ==
    /\ Called("filter_json")
    /\ WellFormedFilters(request.filters)
    /\ IsSuccess(reply)

\* C27: filter_json evaluates every mapping node of the tree on its own and
\* walks into a node that matched: the results are the matching mapping
\* nodes in pre-order (a parent before its descendants, siblings in
\* document order), a matching node nested in a matching node included, and
\* matches_found is the number of results.
C27_PreOrderOfAllMatches ==
    FilterReturned =>
        /\ reply.results = Matching(request.data, request.filters)
        /\ reply.matches_found = Len(reply.results)

\* C27 witness: the second result is a mapping nested inside the first.
C27_Witness ==
    /\ FilterReturned
    /\ Len(reply.results) >= 2
    /\ reply.results[1] # reply.results[2]
    /\ \E i \in 1..Len(Subtrees(reply.results[1])) :
          Subtrees(reply.results[1])[i] = reply.results[2]
    /\ request.filters.keys # << >>

\* Two different sibling mappings matched, the earlier listed first.
SiblingsInDocumentOrder ==
    /\ FilterReturned
    /\ request.data.t = "list"
    /\ Len(reply.results) = 2
    /\ reply.results[1] # reply.results[2]
    /\ \E i, j \in 1..Len(request.data.items) :
          /\ i < j
          /\ request.data.items[i] = reply.results[1]
          /\ request.data.items[j] = reply.results[2]

\* The names of the catalog.
CatalogNames == {get_available_tools[i].name : i \in 1..Len(get_available_tools)}

UnknownTool == ErrorResult("Unknown tool")

\* The catalog lists every name once and describes every parameter the
\* dispatcher requires of the tool.
CatalogWellFormed ==
    /\ Cardinality(CatalogNames) = Len(get_available_tools)
    /\ \A i \in 1..Len(get_available_tools) :
          RequiredParams(get_available_tools[i].name) \subseteq get_available_tools[i].parameters

\* C30: the tool catalog and the dispatcher agree: execute_tool on a name of
\* the catalog never returns "Unknown tool", and on every name outside the
\* catalog it always returns "Unknown tool: <name>".
C30_CatalogIsDispatched ==
    Called("execute_tool") =>
        /\ request.tool \in CatalogNames => reply # UnknownTool
        /\ request.tool \notin CatalogNames => reply = UnknownTool

\* C30 as amended: the same, a name outside the catalog yielding "Unknown
\* tool" whenever the parameters are a mapping; the catalog is well formed.
C30_CatalogIsDispatchedOnMappings ==
    Called("execute_tool") =>
        /\ CatalogWellFormed
        /\ request.tool \in CatalogNames => reply # UnknownTool
        /\ (request.tool \notin CatalogNames /\ request.params.t = "dict") =>
              reply = UnknownTool
        /\ (request.tool \notin CatalogNames /\ request.params.t # "dict") =>
              reply = ErrorResult("Parameters must be a dictionary")

\* C30 witness: a name outside the catalog was refused with parameters that
\* would have been valid for a tool.
C30_Witness ==
    /\ Called("execute_tool")
    /\ request.tool \notin CatalogNames
    /\ request.params.t = "dict"
    /\ request.params.keys # << >>
    /\ reply = UnknownTool

\* The last tool of the catalog was dispatched to its operation.
LastToolDispatched ==
    /\ Called("execute_tool")
    /\ request.tool = get_available_tools[Len(get_available_tools)].name
    /\ IsSuccess(reply)

IsTerminalEvent(e) == e.type \in {"done", "error"}

TerminalEvents == {k \in 1..Len(events) : IsTerminalEvent(events[k])}

\* The tool_call event at k is followed by the tool_result of the same
\* tool, no event but a status in between.
ToolCallAnswered(k) ==
    \E j \in (k + 1)..Len(events) :
        /\ events[j].type = "tool_result"
        /\ events[j].tool = events[k].tool
        /\ \A m \in (k + 1)..(j - 1) : events[m].type = "status"

\* The events of a stream so far: at most one terminal event, which is the
\* last event and is there exactly when the stream has ended; every
\* tool_call answered by its tool_result, unless its tool is running now.
StreamEventsInOrder ==
    /\ Cardinality(TerminalEvents) <= 1
    /\ Terminal <=> TerminalEvents = {Len(events)} /\ events # << >>
    /\ \A k \in 1..Len(events) :
          events[k].type = "tool_call" =>
              IF k = Len(events)
              THEN pc = "tool" /\ tool_name = events[k].tool
              ELSE ToolCallAnswered(k)
    /\ pc = "tool" => events # << >> /\ events[Len(events)].type = "tool_call"

\* C29: every execution of stream_agent_response emits exactly one terminal
\* event, a done event or an error event, and it is the last event of the
\* stream: no event, no model invocation and no tool execution comes after
\* it, and every tool_call event is followed by the tool_result event of
\* the same tool before it.
C29_OneTerminalEventLast ==
    /\ [](mode = "stream" => StreamEventsInOrder)
    /\ [](mode = "stream" => <>(Terminal /\ Cardinality(TerminalEvents) = 1))
    /\ [][mode = "stream" =>
            /\ ~Terminal
            /\ Len(events') >= Len(events)
            /\ SubSeq(events', 1, Len(events)) = events]_vars

\* C29 witness: a stream ended with an error event after a tool was called
\* and its result emitted.
C29_Witness ==
    /\ mode = "stream"
    /\ Terminal
    /\ events[Len(events)].type = "error"
    /\ \E k \in 1..Len(events) : events[k].type = "tool_call" /\ ToolCallAnswered(k)
    /\ \E k \in 1..Len(events) : events[k] = Status("Tool error")

\* A stream ended with a done event after three tools.
StreamDoneAfterThreeTools ==
    /\ mode = "stream"
    /\ Terminal
    /\ events[Len(events)].type = "done"
    /\ Cardinality({k \in 1..Len(events) : events[k].type = "tool_result"}) = max_iterations

\* ------------------------------------------------- agent runs side by side

\* The locals of one agent run, AIAgent.run or stream_agent_response, as a
\* frame: each call of either function has its own `iteration`, its own
\* `iterations` list (iterations = []) or `current_context` (context = {}),
\* and agent_chat builds an AIAgent of its own for every request. `heard`,
\* `got` and `calls` remember what the run was given and what it asked for:
\* the outcomes of its model invocations, the results of its execute_tool
\* calls, and the (tool, parameters) of those calls.
NewFrame(loop) ==
    [loop |-> loop, pc |-> "think", iteration |-> 0, ai_attempt |-> 0,
     iterations |-> << >>, tool_results |-> << >>, tool_name |-> None,
     parameters |-> EmptyDict, result |-> NoResult,
     heard |-> << >>, got |-> << >>, calls |-> << >>]

\* return: the run ends with `res`.
FrameEnds(f, res) == [f EXCEPT !.pc = "done", !.result = res]

\* The end of a pass of the for loop that did not return.
FrameAdvances(f) ==
    IF f.iteration + 1 < max_iterations
    THEN [f EXCEPT !.iteration = @ + 1, !.ai_attempt = 0, !.pc = "think"]
    ELSE FrameEnds(f, Exhausted(IF f.loop = "run" THEN max_iterations
                                ELSE f.iteration + 1))

\* except Exception inside the model retry loop of stream_agent_response.
FrameExcept(f) ==
    IF f.ai_attempt < max_ai_retries - 1
    THEN [f EXCEPT !.ai_attempt = @ + 1]
    ELSE FrameEnds(f, Failed(f.iteration + 1))

\* execute_tool(tool, params) is called.
FrameEntersTool(f, tool, params) ==
    [f EXCEPT !.pc = "tool", !.tool_name = tool, !.parameters = params,
              !.calls = Append(@, [tool |-> tool, parameters |-> params])]

\* generate_content raises in the run of frame f.
FrameModelRaises(f) ==
    LET g == [f EXCEPT !.heard = Append(@, [raised |-> TRUE, text |-> << >>])]
    IN  IF f.loop = "run" THEN FrameEnds(g, Failed(f.iteration + 1))
        ELSE FrameExcept(g)

\* generate_content returns `text` in AIAgent.run.
RunFrameResponds(g, text) ==
    LET action_data == RunParsed[text]
    IN  IF action_data.type = "error"
        THEN FrameEnds(g, Answered(RunExtracted[text], g.iteration + 1))
        ELSE IF ~IsDict(action_data)
        THEN FrameEnds(g, Failed(g.iteration + 1))
        ELSE IF action_data.action = "answer"
        THEN FrameEnds(g, Answered(Str(action_data.response), g.iteration + 1))
        ELSE IF action_data.action = "use_tool"
        THEN FrameEntersTool(g, action_data.tool, ParametersOf(action_data))
        ELSE FrameAdvances(g)

\* generate_content returns `text` in stream_agent_response.
StreamFrameResponds(g, text) ==
    LET action_data == StreamParsed[text]
    IN  IF text = << >> THEN FrameExcept(g)
        ELSE IF Truthy(action_data) /\ IsDict(action_data)
                /\ action_data.action = "answer"
        THEN FrameEnds(g, Answered(IF action_data.response = None THEN text
                                   ELSE Str(action_data.response),
                                   g.iteration + 1))
        ELSE IF Truthy(action_data) /\ IsDict(action_data)
                /\ action_data.action = "use_tool"
        THEN IF NoToolName(action_data.tool) THEN FrameExcept(g)
             ELSE FrameEntersTool(g, action_data.tool, ParametersOf(action_data))
        ELSE FrameEnds(g, Answered(text, g.iteration + 1))

FrameModelResponds(f, text) ==
    LET g == [f EXCEPT !.heard = Append(@, [raised |-> FALSE, text |-> text])]
    IN  IF f.loop = "run" THEN RunFrameResponds(g, text)
        ELSE StreamFrameResponds(g, text)

\* execute_tool returns `res` to the run of frame f.
FrameToolReturns(f, res) ==
    LET g == [f EXCEPT !.got = Append(@, res)]
    IN  IF f.loop = "run"
        THEN FrameAdvances([g EXCEPT !.iterations = Append(@,
                 [iteration |-> f.iteration + 1, tool |-> f.tool_name,
                  parameters |-> f.parameters, result |-> res])])
        ELSE FrameAdvances([g EXCEPT !.tool_results = Append(@,
                 [tool |-> f.tool_name, result |-> res])])

\* What execute_tool can return for these arguments.
ToolReturnValues(tool, params) ==
    IF HasError(Validate(tool, params)) THEN {Validate(tool, params)}
    ELSE {Success, EngineError}

\* The texts the model answers runs that go side by side.
SideBySideResponses ==
    {R_ANSWER, R_TOOL_JSON, R_TOOL_NESTED, R_NUM, R_OTHER}

Runs == 1..2

\* The frames after run r appended the result of its tool to a log that all
\* runs of the same function share.
ReturnsToSharedLog(rs, r, res) ==
    [q \in Runs |->
        IF q = r THEN FrameToolReturns(rs[r], res)
        ELSE IF rs[q].loop = rs[r].loop
        THEN [rs[q] EXCEPT
                 !.iterations = IF rs[r].loop = "run"
                                THEN FrameToolReturns(rs[r], res).iterations ELSE @,
                 !.tool_results = IF rs[r].loop = "stream"
                                  THEN FrameToolReturns(rs[r], res).tool_results ELSE @]
        ELSE rs[q]]

\* The frames after execute_tool returned `res` to run r: the record goes
\* to the list of that call of the function, a local.
ReturnsToOwnLog(rs, r, res) == [rs EXCEPT ![r] = FrameToolReturns(rs[r], res)]

soloVars ==
    <<mode, pc, iteration, ai_attempt, iterations, tool_results, events,
      tool_name, parameters, max_retries, attempt, last_error, engine_calls,
      model_log, result, file_system, request, reply, returned>>

\* Two agent runs start, each AIAgent.run or stream_agent_response.
SideBySideInit ==
    /\ mode = "concurrent"
    /\ pc = "steps"
    /\ iteration = 0
    /\ ai_attempt = 0
    /\ iterations = << >>
    /\ tool_results = << >>
    /\ events = << >>
    /\ tool_name = None
    /\ parameters = EmptyDict
    /\ max_retries = DefaultMaxRetries
    /\ attempt = 0
    /\ last_error = None
    /\ engine_calls = 0
    /\ model_log = << >>
    /\ result = NoResult
    /\ file_system = None
    /\ request = None
    /\ reply = None
    /\ returned = 0
    /\ runs \in [Runs -> {NewFrame("run"), NewFrame("stream")}]

\* The model invocation of one of the runs raises.
SomeModelRaises ==
    /\ mode = "concurrent"
    /\ \E r \in Runs :
        /\ runs[r].pc = "think"
        /\ runs' = [runs EXCEPT ![r] = FrameModelRaises(runs[r])]
    /\ UNCHANGED soloVars

\* The model invocation of one of the runs returns a text.
SomeModelResponds ==
    /\ mode = "concurrent"
    /\ \E r \in Runs, text \in SideBySideResponses :
        /\ runs[r].pc = "think"
        /\ runs' = [runs EXCEPT ![r] = FrameModelResponds(runs[r], text)]
    /\ UNCHANGED soloVars

\* The execute_tool call of one of the runs returns.
SomeToolReturns ==
    /\ mode = "concurrent"
    /\ \E r \in Runs :
        /\ runs[r].pc = "tool"
        /\ \E res \in ToolReturnValues(runs[r].tool_name, runs[r].parameters) :
              runs' = ReturnsToOwnLog(runs, r, res)
    /\ UNCHANGED soloVars

SideBySideNext ==
    \/ SomeModelRaises
    \/ SomeModelResponds
    \/ SomeToolReturns

SideBySideSpec == SideBySideInit /\ [][SideBySideNext]_vars

\* The frame of the single run of Spec, what it was given left aside.
FrameOfRun ==
    [loop |-> mode, pc |-> pc, iteration |-> iteration, ai_attempt |-> ai_attempt,
     iterations |-> iterations, tool_results |-> tool_results,
     tool_name |-> tool_name, parameters |-> parameters, result |-> result]

Locals(f) ==
    [loop |-> f.loop, pc |-> f.pc, iteration |-> f.iteration,
     ai_attempt |-> f.ai_attempt, iterations |-> f.iterations,
     tool_results |-> f.tool_results, tool_name |-> f.tool_name,
     parameters |-> f.parameters, result |-> f.result]

AsFrame(l) ==
    [loop |-> l.loop, pc |-> l.pc, iteration |-> l.iteration,
     ai_attempt |-> l.ai_attempt, iterations |-> l.iterations,
     tool_results |-> l.tool_results, tool_name |-> l.tool_name,
     parameters |-> l.parameters, result |-> l.result,
     heard |-> << >>, got |-> << >>, calls |-> << >>]

\* Every step of a run of Spec is a step of its frame: a model invocation
\* that raises or returns, the return of execute_tool, or a pass of
\* execute_tool that leaves the locals of the loop alone.
FramesFollowTheLoops ==
    [][InLoop =>
          \/ FrameOfRun' = FrameOfRun
          \/ /\ pc = "think"
             /\ \/ FrameOfRun' = Locals(FrameModelRaises(AsFrame(FrameOfRun)))
                \/ \E text \in Responses :
                      FrameOfRun' = Locals(FrameModelResponds(AsFrame(FrameOfRun), text))
          \/ /\ pc = "tool"
             /\ \E res \in {Validate(tool_name, parameters), Success, EngineError,
                            FailedAfter(tool_name, "exception"),
                            FailedAfter(tool_name, last_error)} :
                   FrameOfRun' = Locals(FrameToolReturns(AsFrame(FrameOfRun), res))]_vars

\* The run of a frame executed alone: the frame after the function was
\* given, in order, the model outcomes `heard` and the tool results `got`.
RECURSIVE Alone(_, _, _)
Alone(f, heard, got) ==
    IF f.pc = "think" /\ heard # << >>
    THEN Alone(IF heard[1].raised THEN FrameModelRaises(f)
               ELSE FrameModelResponds(f, heard[1].text),
               Tail(heard), got)
    ELSE IF f.pc = "tool" /\ got # << >>
    THEN Alone(FrameToolReturns(f, got[1]), heard, Tail(got))
    ELSE f

\* The log of a frame: the Iteration Records of AIAgent.run, the
\* tool_results of the context of stream_agent_response.
LogOf(f) ==
    IF f.loop = "run"
    THEN [k \in 1..Len(f.iterations) |->
            [tool |-> f.iterations[k].tool, result |-> f.iterations[k].result]]
    ELSE f.tool_results

\* Every record of the log of a frame comes from an execute_tool call of
\* its own run: the k-th record holds the tool of its k-th call and the
\* result that call returned.
OwnRecordsOnly(f) ==
    /\ Len(LogOf(f)) = Len(f.got)
    /\ Len(LogOf(f)) <= Len(f.calls)
    /\ \A k \in 1..Len(LogOf(f)) :
          /\ LogOf(f)[k].tool = f.calls[k].tool
          /\ LogOf(f)[k].result = f.got[k]
          /\ f.loop = "run" => f.iterations[k].parameters = f.calls[k].parameters

\* C24: concurrent agent runs are independent: under every interleaving of
\* the steps of two runs, the iteration log of each (the tool_results of
\* its context, when streaming) holds only records of its own tool
\* executions, and each run stands, and ends, as it would executed alone
\* with the same model responses and tool results.
C24_RunsIndependent ==
    mode = "concurrent" =>
        \A r \in Runs :
            /\ OwnRecordsOnly(runs[r])
            /\ runs[r] = Alone(NewFrame(runs[r].loop), runs[r].heard, runs[r].got)

\* C24 witness: two runs of AIAgent.run, one ended with a record of its own,
\* the other in execute_tool with another record in its log.
C24_Witness ==
    /\ mode = "concurrent"
    /\ runs[1].loop = "run"
    /\ runs[2].loop = "run"
    /\ runs[1].pc = "done"
    /\ runs[2].pc = "tool"
    /\ Len(runs[1].iterations) = 1
    /\ Len(runs[2].iterations) = 1
    /\ runs[1].iterations[1].tool # runs[2].iterations[1].tool
    /\ runs[1].iterations[1].result # runs[2].iterations[1].result

\* Two streaming runs ended with different records in their contexts.
StreamsWithOwnContexts ==
    /\ mode = "concurrent"
    /\ runs[1].loop = "stream"
    /\ runs[2].loop = "stream"
    /\ runs[1].pc = "done"
    /\ runs[2].pc = "done"
    /\ Len(runs[1].tool_results) = 2
    /\ Len(runs[2].tool_results) = 1
    /\ runs[1].tool_results[1] # runs[2].tool_results[1]

\* No model invocation of the run raised.
NoModelFailure(f) == \A k \in 1..Len(f.heard) : ~f.heard[k].raised

\* Two runs were given the same sequence of model responses: the k-th
\* invocation of each returned the same text, as far as both went.
SameResponses(f, g) ==
    \A k \in 1..Len(f.heard) :
        k <= Len(g.heard) => f.heard[k].text = g.heard[k].text

\* Both loops ended, on the same responses and without a model failure.
EndedOnSameResponses(f, g) ==
    /\ f.loop = "run"
    /\ g.loop = "stream"
    /\ f.pc = "done"
    /\ g.pc = "done"
    /\ NoModelFailure(f)
    /\ NoModelFailure(g)
    /\ SameResponses(f, g)

\* The two runs made the same execute_tool calls and ended alike.
EndedAlike(f, g) ==
    /\ f.calls = g.calls
    /\ f.result.outcome = g.result.outcome
    /\ f.result.total_iterations = g.result.total_iterations

\* C28: AIAgent.run and stream_agent_response are equivalent on the same
\* inputs: for every sequence of model responses without model-call
\* failures both make the same sequence of (tool, parameters) dispatches
\* and end in the same kind of terminal state after the same number of
\* iterations.
C28_LoopsEquivalent ==
    mode = "concurrent" =>
        \A r, q \in Runs :
            EndedOnSameResponses(runs[r], runs[q]) => EndedAlike(runs[r], runs[q])

\* The texts both loops read as the same action.
ReadAlike == {R_ANSWER, R_TOOL_JSON}

\* The loops are equivalent on the responses both read as the same action.
EquivalentWhenReadAlike ==
    mode = "concurrent" =>
        \A r, q \in Runs :
            (EndedOnSameResponses(runs[r], runs[q])
                /\ \A k \in 1..Len(runs[r].heard) : runs[r].heard[k].text \in ReadAlike
                /\ \A j \in 1..Len(runs[q].heard) : runs[q].heard[j].text \in ReadAlike) =>
                EndedAlike(runs[r], runs[q])

\* Both loops ran a tool and then answered, alike.
BothRanToolThenAnswered ==
    /\ mode = "concurrent"
    /\ EndedOnSameResponses(runs[1], runs[2])
    /\ EndedAlike(runs[1], runs[2])
    /\ Len(runs[1].calls) = 1
    /\ runs[1].result.outcome = "Answered"
    /\ runs[1].heard = runs[2].heard

\* On the bare number AIAgent.run failed and stream_agent_response answered.
RunFailedStreamAnswered ==
    /\ mode = "concurrent"
    /\ EndedOnSameResponses(runs[1], runs[2])
    /\ runs[1].heard = runs[2].heard
    /\ runs[1].heard[1].text = R_NUM
    /\ runs[1].result.outcome = "Failed"
    /\ runs[2].result.outcome = "Answered"

\* On the unfenced request with nested parameters AIAgent.run called the
\* tool and stream_agent_response answered with the text.
RunDispatchedStreamAnswered ==
    /\ mode = "concurrent"
    /\ EndedOnSameResponses(runs[1], runs[2])
    /\ runs[1].heard[1].text = R_TOOL_NESTED
    /\ runs[1].calls # << >>
    /\ runs[2].calls = << >>
    /\ runs[2].result.outcome = "Answered"

====
